---- MODULE Spec2Model ----
(***************************************************************************)
(* Model of the HTTP client wrapper (package client): request assembly     *)
(* (validateMethod, buildURL, mergeHeaders, newRequestWithParams) and the  *)
(* request executor SendRequest, run by several goroutines on one Client.  *)
(*                                                                         *)
(* Strings that the code inspects are sequences of one-character strings   *)
(* (method names) or sequences of path tokens ("/" or a segment name).     *)
(* Header maps live in a heap of map objects so that sharing of a map      *)
(* between the client, a caller and a request is visible.                  *)
(***************************************************************************)
EXTENDS Integers, Sequences, FiniteSets, TLC

(* ------------------------------------------------------------------ *)
(* Bounds                                                             *)
(* ------------------------------------------------------------------ *)

\* number of goroutines calling SendRequest on the one client
NumCalls == 2

\* number of calls that change or edit header maps while requests are made
MaxSetupCalls == 2

\* length of the base URL strings given to NewHTTPClient
MaxURLLen == 5

\* number of options given to applyOptions
MaxOptions == 3

Calls == 1..NumCalls

(* ------------------------------------------------------------------ *)
(* Strings: strings.ToUpper on a sequence of characters               *)
(* ------------------------------------------------------------------ *)

LowerLetters ==
  <<"a","b","c","d","e","f","g","h","i","j","k","l","m",
    "n","o","p","q","r","s","t","u","v","w","x","y","z">>

UpperLetters ==
  <<"A","B","C","D","E","F","G","H","I","J","K","L","M",
    "N","O","P","Q","R","S","T","U","V","W","X","Y","Z">>

ToUpperChar(c) ==
  IF \E n \in 1..Len(LowerLetters) : LowerLetters[n] = c
    THEN UpperLetters[CHOOSE n \in 1..Len(LowerLetters) : LowerLetters[n] = c]
    ELSE c

ToUpper(s) == [n \in 1..Len(s) |-> ToUpperChar(s[n])]

\* the net/http method constants accepted by validateMethod
SupportedMethods ==
  { <<"G","E","T">>, <<"P","O","S","T">>, <<"P","U","T">>,
    <<"P","A","T","C","H">>, <<"D","E","L","E","T","E">>,
    <<"H","E","A","D">>, <<"O","P","T","I","O","N","S">>,
    <<"T","R","A","C","E">>, <<"C","O","N","N","E","C","T">> }

(* ------------------------------------------------------------------ *)
(* Errors: a message, the set of errors it wraps (errors.Is), a code   *)
(* ------------------------------------------------------------------ *)

NoError == [nil |-> TRUE, msg |-> "", wraps |-> {}, code |-> 0]

NewError(m) == [nil |-> FALSE, msg |-> m, wraps |-> {m}, code |-> 0]

\* fmt.Errorf("<prefix>: %w", e): a new message that wraps e and all e wraps
Wrap(prefix, e) ==
  [nil |-> FALSE, msg |-> prefix, wraps |-> {prefix} \cup e.wraps, code |-> e.code]

ErrorsIs(e, target) == ~e.nil /\ target \in e.wraps

ErrFailedToReadResponseBody == "failed to read response body"

ErrStatusCodeNotSuccess == "status code is not success"

ErrPrepare == "failed to prepare a request"

ErrSend == "failed to send a request"

ErrMethodEmpty == "http method is empty"

ErrMethodUnsupported == "unsupported http method"

ErrBaseNil == "base URL is nil"

ErrNilContext == "net/http: nil Context"

ErrContextCanceled == "context canceled"

ErrTransport == "boom"

(* ------------------------------------------------------------------ *)
(* validateMethod                                                      *)
(* ------------------------------------------------------------------ *)

\* variant: the method is compared as written, without strings.ToUpper
validateMethod_caseSensitive(method) ==
  IF method = <<>>
    THEN [m |-> <<>>, err |-> NewError(ErrMethodEmpty), arg |-> <<>>]
    ELSE IF method \in SupportedMethods
           THEN [m |-> method, err |-> NoError, arg |-> <<>>]
           ELSE [m |-> <<>>, err |-> NewError(ErrMethodUnsupported),
                 arg |-> method]

validateMethod(method) ==
  IF method = <<>>
    THEN [m |-> <<>>, err |-> NewError(ErrMethodEmpty), arg |-> <<>>]
    ELSE LET m == ToUpper(method)
         IN IF m \in SupportedMethods
              THEN [m |-> m, err |-> NoError, arg |-> <<>>]
              ELSE [m |-> <<>>, err |-> NewError(ErrMethodUnsupported),
                    arg |-> method]

(* ------------------------------------------------------------------ *)
(* Paths: path.Clean and path.Join on token sequences                  *)
(* ------------------------------------------------------------------ *)

Sep == "/"

\* the element names of a path, in order; empty elements are dropped
RECURSIVE PathNames(_)
PathNames(p) ==
  IF p = <<>> THEN <<>>
  ELSE IF Head(p) = Sep THEN PathNames(Tail(p))
  ELSE <<Head(p)>> \o PathNames(Tail(p))

DropLast(s) == SubSeq(s, 1, Len(s) - 1)

\* variant: a ".." is kept as a name instead of removing the name before it
RECURSIVE CleanStack_keepsDotDot(_, _, _)
CleanStack_keepsDotDot(names, rooted, stack) ==
  IF names = <<>> THEN stack
  ELSE IF Head(names) = "."
    THEN CleanStack_keepsDotDot(Tail(names), rooted, stack)
    ELSE CleanStack_keepsDotDot(Tail(names), rooted, Append(stack, Head(names)))

\* process the names left to right on a stack, as path.Clean does
RECURSIVE CleanStack(_, _, _)
CleanStack(names, rooted, stack) ==
  IF names = <<>> THEN stack
  ELSE LET n == Head(names)
           rest == Tail(names)
       IN IF n = "." THEN CleanStack(rest, rooted, stack)
          ELSE IF n = ".."
            THEN IF stack # <<>> /\ stack[Len(stack)] # ".."
                   THEN CleanStack(rest, rooted, DropLast(stack))
                   ELSE IF rooted
                          THEN CleanStack(rest, rooted, stack)
                          ELSE CleanStack(rest, rooted, Append(stack, ".."))
            ELSE CleanStack(rest, rooted, Append(stack, n))

RECURSIVE JoinNames(_)
JoinNames(names) ==
  IF names = <<>> THEN <<>>
  ELSE IF Len(names) = 1 THEN names
  ELSE <<Head(names), Sep>> \o JoinNames(Tail(names))

PathClean(p) ==
  IF p = <<>> THEN <<".">>
  ELSE LET rooted == Head(p) = Sep
           stack == CleanStack(PathNames(p), rooted, <<>>)
       IN IF rooted THEN <<Sep>> \o JoinNames(stack)
          ELSE IF stack = <<>> THEN <<".">>
          ELSE JoinNames(stack)

\* variant: the elements are concatenated without path.Clean
PathJoin_noClean(a, b) ==
  IF a = <<>> /\ b = <<>> THEN <<>>
  ELSE IF a = <<>> THEN b
  ELSE a \o <<Sep>> \o b

\* path.Join(a, b)
PathJoin(a, b) ==
  IF a = <<>> /\ b = <<>> THEN <<>>
  ELSE IF a = <<>> THEN PathClean(b)
  ELSE PathClean(a \o <<Sep>> \o b)

(* ------------------------------------------------------------------ *)
(* Query strings: url.Values, URL.Query, Values.Add, Values.Encode     *)
(* A raw query is the sequence of its key/value entries.               *)
(* ------------------------------------------------------------------ *)

EmptyMap == <<>>

\* the query keys of the model in sorted order (Encode sorts by key)
QueryKeyOrder == <<"bar", "foo", "p">>

\* variant: Set instead of Add, the value replaces the values of the key
ValuesAdd_set(q, k, v) ==
  IF k \in DOMAIN q THEN [q EXCEPT ![k] = <<v>>]
  ELSE q @@ (k :> <<v>>)

ValuesAdd(q, k, v) ==
  IF k \in DOMAIN q THEN [q EXCEPT ![k] = Append(@, v)]
  ELSE q @@ (k :> <<v>>)

RECURSIVE ValuesAddAll(_, _, _)
ValuesAddAll(q, k, vals) ==
  IF vals = <<>> THEN q
  ELSE ValuesAddAll(ValuesAdd(q, k, Head(vals)), k, Tail(vals))

\* URL.Query(): parse the raw query, entry by entry
RECURSIVE ParseQuery(_, _)
ParseQuery(raw, q) ==
  IF raw = <<>> THEN q
  ELSE ParseQuery(Tail(raw), ValuesAdd(q, Head(raw)[1], Head(raw)[2]))

URLQuery(raw) == ParseQuery(raw, EmptyMap)

RECURSIVE EntriesOf(_, _)
EntriesOf(k, vals) ==
  IF vals = <<>> THEN <<>>
  ELSE <<(<<k, Head(vals)>>)>> \o EntriesOf(k, Tail(vals))

RECURSIVE EncodeFrom(_, _)
EncodeFrom(q, n) ==
  IF n > Len(QueryKeyOrder) THEN <<>>
  ELSE LET k == QueryKeyOrder[n]
       IN (IF k \in DOMAIN q THEN EntriesOf(k, q[k]) ELSE <<>>)
            \o EncodeFrom(q, n + 1)

ValuesEncode(q) == EncodeFrom(q, 1)

\* every value of every key of params is added; keys of a map are distinct,
\* so the iteration order of the map does not show in the result
RECURSIVE AddParams(_, _, _)
AddParams(q, params, keys) ==
  IF keys = {} THEN q
  ELSE LET k == CHOOSE x \in keys : TRUE
       IN AddParams(ValuesAddAll(q, k, params[k]), params, keys \ {k})

(* ------------------------------------------------------------------ *)
(* URLs and buildURL                                                   *)
(* ------------------------------------------------------------------ *)

NilURL ==
  [nil |-> TRUE, scheme |-> "", host |-> "", path |-> <<>>, rawQuery |-> <<>>]

URL(scheme, host, path, rawQuery) ==
  [nil |-> FALSE, scheme |-> scheme, host |-> host, path |-> path,
   rawQuery |-> rawQuery]

\* variant: u := base, the build writes through the base pointer
BaseAfterBuild_shared(base, u) == u

\* u := *base: the build works on a copy, the base keeps its value
BaseAfterBuild(base, u) == base

\* variant: a leading separator makes the extra path replace the base path
buildURL_absoluteReplaces(base, extraPath, params) ==
  IF base.nil
    THEN [u |-> NilURL, err |-> NewError(ErrBaseNil), base |-> base]
    ELSE LET u1 == IF extraPath # <<>>
                     THEN IF Head(extraPath) = Sep
                            THEN [base EXCEPT !.path = PathClean(extraPath)]
                            ELSE [base EXCEPT !.path =
                                    PathJoin(base.path, extraPath)]
                     ELSE base
             u2 == IF Cardinality(DOMAIN params) > 0
                     THEN [u1 EXCEPT !.rawQuery =
                             ValuesEncode(AddParams(URLQuery(u1.rawQuery),
                                                    params, DOMAIN params))]
                     ELSE u1
         IN [u |-> u2, err |-> NoError, base |-> BaseAfterBuild(base, u2)]

\* the built URL, the error, and the base as the call leaves it
buildURL(base, extraPath, params) ==
  IF base.nil
    THEN [u |-> NilURL, err |-> NewError(ErrBaseNil), base |-> base]
    ELSE LET u1 == IF extraPath # <<>>
                     THEN [base EXCEPT !.path = PathJoin(base.path, extraPath)]
                     ELSE base
             u2 == IF Cardinality(DOMAIN params) > 0
                     THEN [u1 EXCEPT !.rawQuery =
                             ValuesEncode(AddParams(URLQuery(u1.rawQuery),
                                                    params, DOMAIN params))]
                     ELSE u1
         IN [u |-> u2, err |-> NoError, base |-> BaseAfterBuild(base, u2)]

\* URL.String() followed by the parse in http.NewRequestWithContext: a
\* non-empty path below a host is rendered with a leading separator
RenderParse(u) ==
  IF u.path # <<>> /\ Head(u.path) # Sep /\ u.host # ""
    THEN [u EXCEPT !.path = <<Sep>> \o u.path]
    ELSE u

(* ------------------------------------------------------------------ *)
(* Header maps: http.Header.Add and the heap of map objects            *)
(* ------------------------------------------------------------------ *)

\* textproto.CanonicalMIMEHeaderKey on the header names of the model
NonCanonicalKeys == ("k" :> "K")

CanonicalKey(k) ==
  IF k \in DOMAIN NonCanonicalKeys THEN NonCanonicalKeys[k] ELSE k

\* variant: Set instead of Add, the value replaces the values of the key
HeaderAdd_set(h, k, v) ==
  LET ck == CanonicalKey(k)
  IN IF ck \in DOMAIN h THEN [h EXCEPT ![ck] = <<v>>]
     ELSE h @@ (ck :> <<v>>)

HeaderAdd(h, k, v) ==
  LET ck == CanonicalKey(k)
  IN IF ck \in DOMAIN h THEN [h EXCEPT ![ck] = Append(@, v)]
     ELSE h @@ (ck :> <<v>>)

RECURSIVE HeaderAddValues(_, _, _)
HeaderAddValues(h, k, vals) ==
  IF vals = <<>> THEN h
  ELSE HeaderAddValues(HeaderAdd(h, k, Head(vals)), k, Tail(vals))

\* for k, vals := range src { for _, v := range vals { h.Add(k, v) } }
\* with the keys of src visited in the given order
RECURSIVE HeaderAddAll(_, _, _)
HeaderAddAll(h, src, order) ==
  IF order = <<>> THEN h
  ELSE HeaderAddAll(HeaderAddValues(h, Head(order), src[Head(order)]),
                    src, Tail(order))

\* the orders in which a range loop may visit the keys of a map
KeyOrders(m) ==
  LET n == Cardinality(DOMAIN m)
  IN { o \in [1..n -> DOMAIN m] : \A a, b \in 1..n : a # b => o[a] # o[b] }

\* map objects are addressed by pointers; 0 is the nil map
NilMap == 0

\* the map resolved by applyOptions and owned by the client
DefaultsLoc == 1

\* the map a caller passes as the request headers of call i
ReqHdrLoc(i) == 10 + i

\* the map allocated by mergeHeaders for call i
MergedLoc(i) == 20 + i

\* the map a caller passes to AddHeaders or ReplaceHeaders
CallerLoc == 2

\* the map allocated by the n-th call that changes the default headers
SetupLoc(n) == 30 + n

Locs ==
  {DefaultsLoc, CallerLoc}
    \cup {ReqHdrLoc(i) : i \in Calls} \cup {MergedLoc(i) : i \in Calls}
    \cup {SetupLoc(n) : n \in 1..MaxSetupCalls}

\* ranging over a nil map visits nothing
Deref(hp, ptr) == IF ptr = NilMap THEN EmptyMap ELSE hp[ptr]

\* variant: the merge writes into the first map instead of a new one
MakeMerged_aliasBase(fresh, base) == IF base # NilMap THEN base ELSE fresh

\* merged := make(http.Header): the map the merge writes into
MakeMerged(fresh, base) == fresh

\* variant: without request headers the first map itself is returned
mergeHeaders_returnsBaseWhenNoExtra(hp, fresh, base, extra) ==
  IF extra = NilMap /\ base # NilMap
    THEN {[heap |-> hp, ptr |-> base]}
    ELSE { [heap |-> [hp EXCEPT ![fresh] =
                        HeaderAddAll(HeaderAddAll(hp[fresh], Deref(hp, base), ob),
                                     Deref(hp, extra), oe)],
            ptr |-> fresh] :
           ob \in KeyOrders(Deref(hp, base)), oe \in KeyOrders(Deref(hp, extra)) }

\* mergeHeaders(base, extra): every heap the merge can leave behind, with the
\* merged map at its pointer
mergeHeaders(hp, fresh, base, extra) ==
  LET merged == MakeMerged(fresh, base)
      b == Deref(hp, base)
      e == Deref(hp, extra)
  IN { [heap |-> [hp EXCEPT ![merged] =
                    HeaderAddAll(HeaderAddAll(hp[merged], b, ob), e, oe)],
        ptr |-> merged] : ob \in KeyOrders(b), oe \in KeyOrders(e) }

(* ------------------------------------------------------------------ *)
(* Requests and newRequestWithParams                                   *)
(* ------------------------------------------------------------------ *)

NilRequest ==
  [nil |-> TRUE, method |-> <<>>, url |-> NilURL, header |-> NilMap,
   ctxBound |-> FALSE, body |-> <<>>]

\* variant: the request is constructed without the caller's context
NewRequestWithContext_background(ctxNil, m, u, body) ==
  IF ctxNil
    THEN [req |-> NilRequest, err |-> NewError(ErrNilContext)]
    ELSE [req |-> [nil |-> FALSE, method |-> m, url |-> RenderParse(u),
                   header |-> NilMap, ctxBound |-> FALSE, body |-> body],
          err |-> NoError]

\* http.NewRequestWithContext(ctx, m, u.String(), body)
NewRequestWithContext(ctxNil, m, u, body) ==
  IF ctxNil
    THEN [req |-> NilRequest, err |-> NewError(ErrNilContext)]
    ELSE [req |-> [nil |-> FALSE, method |-> m, url |-> RenderParse(u),
                   header |-> NilMap, ctxBound |-> TRUE, body |-> body],
          err |-> NoError]

\* variant: the method is validated before the URL is built
AssembleRequest_validatesFirst(base, in) ==
  LET bu == buildURL(base, in.path, in.params)
      vm == validateMethod(in.method)
      nr == NewRequestWithContext(in.ctxNil, vm.m, bu.u, in.body)
  IN IF ~vm.err.nil
       THEN [req |-> NilRequest, err |-> vm.err, base |-> bu.base]
     ELSE IF ~bu.err.nil
       THEN [req |-> NilRequest, err |-> bu.err, base |-> bu.base]
     ELSE IF ~nr.err.nil
       THEN [req |-> NilRequest, err |-> nr.err, base |-> bu.base]
     ELSE [req |-> nr.req, err |-> NoError, base |-> bu.base]

\* newRequestWithParams up to the construction of the request: build the
\* URL, validate the method, construct; the first failure is returned
AssembleRequest(base, in) ==
  LET bu == buildURL(base, in.path, in.params)
      vm == validateMethod(in.method)
      nr == NewRequestWithContext(in.ctxNil, vm.m, bu.u, in.body)
  IN IF ~bu.err.nil
       THEN [req |-> NilRequest, err |-> bu.err, base |-> bu.base]
     ELSE IF ~vm.err.nil
       THEN [req |-> NilRequest, err |-> vm.err, base |-> bu.base]
     ELSE IF ~nr.err.nil
       THEN [req |-> NilRequest, err |-> nr.err, base |-> bu.base]
     ELSE [req |-> nr.req, err |-> NoError, base |-> bu.base]

(* ------------------------------------------------------------------ *)
(* Responses and the values SendRequest returns                        *)
(* ------------------------------------------------------------------ *)

NilResponse ==
  [nil |-> TRUE, StatusCode |-> 0, bodyNil |-> TRUE, Body |-> <<>>,
   Headers |-> EmptyMap]

\* http.Header.Clone: a copy of the map and of every value slice
HeaderClone(h) == [k \in DOMAIN h |-> h[k]]

\* return nil, fmt.Errorf("failed to prepare a request: %w", err)
PrepareFailedResult(err) ==
  [res |-> NilResponse, err |-> Wrap(ErrPrepare, err)]

\* variant: the transport's error is returned as it is
SendFailedResult_unwrapped(err) == [res |-> NilResponse, err |-> err]

\* return nil, fmt.Errorf("failed to send a request: %w", err)
SendFailedResult(err) ==
  [res |-> NilResponse, err |-> Wrap(ErrSend, err)]

\* variant: the read failure returns no Response, like the send failure
ReadFailedResult_nilResponse(resp, err) ==
  [res |-> NilResponse,
   err |-> [nil |-> FALSE, msg |-> ErrFailedToReadResponseBody,
            wraps |-> {ErrFailedToReadResponseBody} \cup err.wraps,
            code |-> 0]]

\* variant: the status is classified on the read-failure path as well
ReadFailedResult_classifiesStatus(resp, err) ==
  [res |-> [nil |-> FALSE, StatusCode |-> resp.status, bodyNil |-> TRUE,
            Body |-> <<>>, Headers |-> HeaderClone(resp.header)],
   err |-> [nil |-> FALSE, msg |-> ErrFailedToReadResponseBody,
            wraps |-> {ErrFailedToReadResponseBody} \cup err.wraps
                        \cup (IF resp.status < 200 \/ resp.status > 299
                                THEN {ErrStatusCodeNotSuccess} ELSE {}),
            code |-> 0]]

\* return &Response{StatusCode, Headers}, fmt.Errorf("%w: %w", sentinel, err)
ReadFailedResult(resp, err) ==
  [res |-> [nil |-> FALSE, StatusCode |-> resp.status, bodyNil |-> TRUE,
            Body |-> <<>>, Headers |-> HeaderClone(resp.header)],
   err |-> [nil |-> FALSE, msg |-> ErrFailedToReadResponseBody,
            wraps |-> {ErrFailedToReadResponseBody} \cup err.wraps,
            code |-> 0]]

\* variant: the upper limit is compared with >=
StatusNotSuccess_upperInclusive(code) == code < 200 \/ code >= 299

\* res.StatusCode < 200 || res.StatusCode > 299
StatusNotSuccess(code) == code < 200 \/ code > 299

\* the Response built after a complete read, and the status classification
CompletedResult(resp, b) ==
  LET res == [nil |-> FALSE, StatusCode |-> resp.status, bodyNil |-> FALSE,
              Body |-> b, Headers |-> HeaderClone(resp.header)]
  IN IF StatusNotSuccess(res.StatusCode)
       THEN [res |-> res,
             err |-> [nil |-> FALSE, msg |-> ErrStatusCodeNotSuccess,
                      wraps |-> {ErrStatusCodeNotSuccess},
                      code |-> res.StatusCode]]
       ELSE [res |-> res, err |-> NoError]

(* ------------------------------------------------------------------ *)
(* Inputs                                                              *)
(* ------------------------------------------------------------------ *)

\* the parsed base endpoint given to NewHTTPClient
BaseURLs == { URL("http", "host", <<Sep, "api">>, << <<"foo", "1">> >>) }

\* the map given with WithHeaders
DefaultHeaderInputs == { ("K" :> <<"b1", "b2">>) @@ ("A" :> <<"a1">>) }

\* the arguments of one SendRequest call
CallInput(method, path, params, hdrNil, hdr, ctxNil, body) ==
  [method |-> method, path |-> path, params |-> params, hdrNil |-> hdrNil,
   hdr |-> hdr, ctxNil |-> ctxNil, body |-> body]

\* a plain GET: no path, no params, no request headers, no body
PlainGet ==
  CallInput(<<"G","E","T">>, <<>>, EmptyMap, TRUE, EmptyMap, FALSE, <<>>)

\* a lower-case "post" with a relative path, params, request headers, a body
PostItems ==
  CallInput(<<"p","o","s","t">>, <<"v1", Sep, "items">>,
            ("p" :> <<"1", "2">>), FALSE,
            ("K" :> <<"e1">>) @@ ("Z" :> <<"z1">>), FALSE, <<"x">>)

\* calls whose assembly fails: empty method, unsupported method, nil context
BadInputs ==
  { CallInput(<<>>, <<>>, EmptyMap, TRUE, EmptyMap, FALSE, <<>>),
    CallInput(<<"I","N","V">>, <<>>, EmptyMap, TRUE, EmptyMap, FALSE, <<>>),
    CallInput(<<"G","E","T">>, <<>>, EmptyMap, TRUE, EmptyMap, TRUE, <<>>) }

\* the calls made when the executor's outcomes are examined
ExecInputs == {PlainGet} \cup BadInputs

\* the calls made concurrently: two requests that differ in every argument
ConcInputs == {PlainGet, PostItems}

\* the call made when cancellation is examined
LiveInputs == {PlainGet}

NoInput == CallInput(<<>>, <<>>, EmptyMap, TRUE, EmptyMap, FALSE, <<>>)

\* what the transport can answer: status, header and body stream
RespHeader == ("X-Resp" :> <<"yes">>)

NoResp == [status |-> 0, header |-> EmptyMap, body |-> <<>>]

Responses ==
  { [status |-> 199, header |-> RespHeader, body |-> <<"n","o">>],
    [status |-> 200, header |-> RespHeader, body |-> <<"o","k">>],
    [status |-> 299, header |-> RespHeader, body |-> <<>>],
    [status |-> 300, header |-> RespHeader, body |-> <<"n","o">>] }

\* the answer of a server that accepts the request
OkResponses == { r \in Responses : r.status = 200 }

ErrRead == "read fail"

(* ------------------------------------------------------------------ *)
(* State                                                               *)
(* ------------------------------------------------------------------ *)

VARIABLES
  client,   \* the Client: base endpoint and pointer to the default headers
  heap,     \* the header map objects, by pointer
  calls,    \* the SendRequest call of each goroutine
  probe     \* a direct call of one helper: its arguments and what it returned

vars == <<client, heap, calls, probe>>

\* no helper is called directly
NoProbe == [fn |-> "none", done |-> FALSE]

EmptyHeap == [l \in Locs |-> EmptyMap]

\* NewHTTPClient with a parsed base and WithHeaders(h)
NewHTTPClient(base, h) ==
  [client |-> [base |-> base, headers |-> DefaultsLoc],
   heap |-> [EmptyHeap EXCEPT ![DefaultsLoc] = h]]

\* the deprecated constructor New: no parsed base, no default header map
New ==
  [client |-> [base |-> NilURL, headers |-> NilMap], heap |-> EmptyHeap]

NoSent == [method |-> <<>>, url |-> NilURL, header |-> EmptyMap]

IdleCall ==
  [pc |-> "idle", in |-> NoInput, ctxDone |-> FALSE, req |-> NilRequest,
   sent |-> NoSent, gotResp |-> FALSE, resp |-> NoResp, readOk |-> FALSE,
   ioErr |-> "", res |-> NilResponse, err |-> NoError,
   doCount |-> 0, readCount |-> 0, closeCount |-> 0, closeWarned |-> FALSE]

Init ==
  /\ \E c \in {NewHTTPClient(b, h) : b \in BaseURLs, h \in DefaultHeaderInputs}
                \cup {New} :
       /\ client = c.client
       /\ heap = c.heap
  /\ calls = [i \in Calls |-> IdleCall]
  /\ probe = NoProbe

\* an unrecovered panic in one goroutine ends the program
Crashed == \E i \in Calls : calls[i].pc = "panicked"

\* the pointer a caller passes as request headers
HdrPtr(i, in) == IF in.hdrNil THEN NilMap ELSE ReqHdrLoc(i)

\* variant: the body is closed on the complete-read path only
RunDeferred_afterCompleteRead(c, closeOk) ==
  IF c.gotResp /\ c.readOk
    THEN [c EXCEPT !.closeCount = @ + 1, !.closeWarned = ~closeOk]
    ELSE c

\* variant: a Close error replaces the error the call returns
RunDeferred_returnsCloseError(c, closeOk) ==
  IF c.gotResp
    THEN [c EXCEPT !.closeCount = @ + 1, !.closeWarned = ~closeOk,
                   !.err = IF closeOk THEN @ ELSE NewError("close failed")]
    ELSE c

\* the deferred resp.Body.Close(): registered once the transport returned a
\* response; a Close error is logged as a warning and nothing else
RunDeferred(c, closeOk) ==
  IF c.gotResp
    THEN [c EXCEPT !.closeCount = @ + 1, !.closeWarned = ~closeOk]
    ELSE c

\* variant: after a failed send or read the request is handed to the
\* transport once more instead of returning
Return_retriesAfterFailure(c, r, closeOk) ==
  IF c.doCount = 1 /\ ~r.err.nil /\ r.err.code = 0
    THEN [c EXCEPT !.pc = "sending", !.doCount = @ + 1, !.gotResp = FALSE,
                   !.ioErr = ""]
    ELSE RunDeferred([c EXCEPT !.pc = "done", !.res = r.res, !.err = r.err],
                     closeOk)

\* SendRequest returns r: the deferred call runs, the caller gets r
Return(c, r, closeOk) ==
  RunDeferred([c EXCEPT !.pc = "done", !.res = r.res, !.err = r.err], closeOk)

(* ------------------------------------------------------------------ *)
(* SendRequest, step by step                                           *)
(* ------------------------------------------------------------------ *)

\* SendRequest is called: newRequestWithParams up to the constructed request.
\* On failure the error is logged with c.base.EscapedPath(), which
\* dereferences the base, and the wrapped error is returned.
Start(i, in) ==
  /\ ~Crashed
  /\ calls[i].pc = "idle"
  /\ LET a == AssembleRequest(client.base, in)
         c0 == [calls[i] EXCEPT !.in = in]
     IN
     /\ IF a.err.nil
          THEN /\ calls' = [calls EXCEPT ![i] =
                              [c0 EXCEPT !.pc = "merge", !.req = a.req]]
               /\ heap' = IF in.hdrNil THEN heap
                          ELSE [heap EXCEPT ![ReqHdrLoc(i)] = in.hdr]
          ELSE /\ calls' = [calls EXCEPT ![i] =
                              IF client.base.nil
                                THEN [c0 EXCEPT !.pc = "panicked"]
                                ELSE Return(c0, PrepareFailedResult(a.err),
                                            TRUE)]
               /\ heap' = heap
     /\ client' = [client EXCEPT !.base = a.base]
     /\ UNCHANGED probe

\* req.Header = mergeHeaders(c.headers, headers); the request is handed to
\* c.httpClient.Do
Merge(i) ==
  /\ ~Crashed
  /\ calls[i].pc = "merge"
  /\ \E r \in mergeHeaders(heap, MergedLoc(i), client.headers,
                           HdrPtr(i, calls[i].in)) :
       /\ heap' = r.heap
       /\ calls' = [calls EXCEPT ![i] =
                      [@ EXCEPT !.pc = "sending",
                                !.req = [@ EXCEPT !.header = r.ptr],
                                !.doCount = @ + 1,
                                !.sent = [method |-> calls[i].req.method,
                                          url |-> calls[i].req.url,
                                          header |-> r.heap[r.ptr]]]]
  /\ UNCHANGED <<client, probe>>

\* the caller cancels the context (or its deadline passes) while the call
\* is blocked in the transport or in the body read
Cancel(i) ==
  /\ ~Crashed
  /\ calls[i].pc \in {"sending", "reading"}
  /\ ~calls[i].ctxDone
  /\ calls' = [calls EXCEPT ![i] = [@ EXCEPT !.ctxDone = TRUE]]
  /\ UNCHANGED <<client, heap, probe>>

\* c.httpClient.Do returns a response
TransportRespond(i, r) ==
  /\ ~Crashed
  /\ calls[i].pc = "sending"
  /\ calls' = [calls EXCEPT ![i] =
                 [@ EXCEPT !.pc = "reading", !.gotResp = TRUE, !.resp = r]]
  /\ UNCHANGED <<client, heap, probe>>

\* c.httpClient.Do returns an error
SendFailed(i, cause) ==
  /\ calls' = [calls EXCEPT ![i] =
                 Return([@ EXCEPT !.ioErr = cause],
                        SendFailedResult(NewError(cause)), TRUE)]
  /\ UNCHANGED <<client, heap, probe>>

TransportFail(i) ==
  /\ ~Crashed
  /\ calls[i].pc = "sending"
  /\ SendFailed(i, ErrTransport)

\* the transport gives up the request because its context is done
TransportCancelled(i) ==
  /\ ~Crashed
  /\ calls[i].pc = "sending"
  /\ calls[i].ctxDone
  /\ calls[i].req.ctxBound
  /\ SendFailed(i, ErrContextCanceled)

\* io.ReadAll returns the whole body: build the Response, classify the
\* status, close the body, return
ReadOk(i, closeOk) ==
  /\ ~Crashed
  /\ calls[i].pc = "reading"
  /\ LET c == [calls[i] EXCEPT !.readCount = @ + 1, !.readOk = TRUE]
         r == CompletedResult(c.resp, c.resp.body)
     IN calls' = [calls EXCEPT ![i] =
                    Return(c, r, closeOk)]
  /\ UNCHANGED <<client, heap, probe>>

\* io.ReadAll returns an error
ReadFailed(i, cause, closeOk) ==
  /\ LET c == [calls[i] EXCEPT !.readCount = @ + 1, !.ioErr = cause]
     IN calls' = [calls EXCEPT ![i] =
                    Return(c, ReadFailedResult(c.resp, NewError(cause)),
                           closeOk)]
  /\ UNCHANGED <<client, heap, probe>>

ReadFail(i, closeOk) ==
  /\ ~Crashed
  /\ calls[i].pc = "reading"
  /\ ReadFailed(i, ErrRead, closeOk)

\* the body read gives up because the request's context is done
ReadCancelled(i) ==
  /\ ~Crashed
  /\ calls[i].pc = "reading"
  /\ calls[i].ctxDone
  /\ calls[i].req.ctxBound
  /\ \E closeOk \in BOOLEAN : ReadFailed(i, ErrContextCanceled, closeOk)

\* the goroutines call SendRequest with arguments from ins, the transport
\* answers with a response from resps or fails
Step(ins, resps) ==
  \E i \in Calls :
    \/ \E in \in ins : Start(i, in)
    \/ Merge(i)
    \/ Cancel(i)
    \/ \E r \in resps : TransportRespond(i, r)
    \/ TransportFail(i)
    \/ TransportCancelled(i)
    \/ \E closeOk \in BOOLEAN : ReadOk(i, closeOk)
    \/ \E closeOk \in BOOLEAN : ReadFail(i, closeOk)
    \/ ReadCancelled(i)

\* the executor with every kind of call and every kind of answer
Next == Step(ExecInputs, Responses)

Spec == Init /\ [][Next]_vars

\* concurrent calls with different arguments
NextConc == Step(ConcInputs, OkResponses)

SpecConc == Init /\ [][NextConc]_vars

\* a call that can be cancelled while it is blocked
NextLive == Step(LiveInputs, OkResponses)

\* a goroutine that can run keeps running, and a transport or body read
\* whose context is done returns
Fairness ==
  \A i \in Calls :
    /\ WF_vars(Merge(i))
    /\ WF_vars(TransportCancelled(i))
    /\ WF_vars(ReadCancelled(i))

SpecLive == Init /\ [][NextLive]_vars /\ Fairness

(* ------------------------------------------------------------------ *)
(* Properties of SendRequest                                           *)
(* ------------------------------------------------------------------ *)

Returned(i) == calls[i].pc = "done"

\* the call came back from the transport with a response and read all of it
Completed(i) == Returned(i) /\ calls[i].gotResp /\ calls[i].readOk

\* the transport returned a response and the body read failed
ReadBroke(i) == Returned(i) /\ calls[i].gotResp /\ ~calls[i].readOk

\* the transport was invoked and returned an error
SendBroke(i) == Returned(i) /\ calls[i].doCount > 0 /\ ~calls[i].gotResp

\* the call returned without invoking the transport
PrepareBroke(i) == Returned(i) /\ calls[i].doCount = 0

\* C1: when the transport returns a response and the body is read completely,
\* the error wraps ErrStatusCodeNotSuccess exactly when the status is below
\* 200 or above 299; the Response is non-nil with the status, the full body
\* and the headers; for a status in [200, 299] the error is nil.
C1_StatusClassification ==
  \A i \in Calls :
    Completed(i) =>
      LET c == calls[i]
      IN /\ ErrorsIs(c.err, ErrStatusCodeNotSuccess)
              <=> (c.resp.status < 200 \/ c.resp.status > 299)
         /\ ~c.res.nil
         /\ c.res.StatusCode = c.resp.status
         /\ ~c.res.bodyNil
         /\ c.res.Body = c.resp.body
         /\ c.res.Headers = c.resp.header
         /\ (c.resp.status \in 200..299 => c.err.nil)

\* C1 witness: one call completed with status 299 and no error, another with
\* status 300 and the sentinel
C1_Witness ==
  \E i, j \in Calls :
    /\ Completed(i) /\ calls[i].resp.status = 299 /\ calls[i].err.nil
    /\ Completed(j) /\ calls[j].resp.status = 300
    /\ ErrorsIs(calls[j].err, ErrStatusCodeNotSuccess)

\* C2: every call ends in one of the five outcomes prepare-failed,
\* send-failed, read-failed, completed-but-non-2xx, success; the Response is
\* nil exactly in prepare-failed and send-failed, the error is nil exactly in
\* success.
C2_FiveOutcomes ==
  \A i \in Calls :
    calls[i].pc \in {"done", "panicked"} =>
      LET c == calls[i]
          success == Completed(i) /\ c.resp.status \in 200..299
      IN /\ Returned(i)
         /\ c.res.nil <=> (PrepareBroke(i) \/ SendBroke(i))
         /\ c.err.nil <=> success

\* C3: when the body read fails, the Response is non-nil with the status and
\* the headers and no body, and the error wraps ErrFailedToReadResponseBody
\* and the read error.
C3_ReadFailure ==
  \A i \in Calls :
    ReadBroke(i) =>
      LET c == calls[i]
      IN /\ ~c.res.nil
         /\ c.res.StatusCode = c.resp.status
         /\ c.res.Headers = c.resp.header
         /\ c.res.bodyNil
         /\ ErrorsIs(c.err, ErrFailedToReadResponseBody)
         /\ ErrorsIs(c.err, c.ioErr)

C3_Witness ==
  \E i \in Calls :
    /\ ReadBroke(i)
    /\ calls[i].ioErr = ErrRead
    /\ calls[i].resp.status = 200
    /\ ~calls[i].res.nil

\* C4: when the transport fails, SendRequest returns a nil Response and an
\* error named "failed to send a request" that wraps the transport's error,
\* and the call does not panic.
C4_SendFailure ==
  \A i \in Calls :
    /\ SendBroke(i) =>
         /\ calls[i].res.nil
         /\ calls[i].err.msg = ErrSend
         /\ ErrorsIs(calls[i].err, calls[i].ioErr)
    /\ calls[i].doCount > 0 => calls[i].pc # "panicked"

C4_Witness ==
  \E i \in Calls :
    /\ SendBroke(i)
    /\ calls[i].ioErr = ErrTransport
    /\ ErrorsIs(calls[i].err, ErrTransport)

\* C5: when request assembly fails (URL build, method validation, request
\* construction), SendRequest returns a nil Response and an error named
\* "failed to prepare a request" that wraps the assembler's error, and the
\* transport is not invoked.
C5_PrepareFailure ==
  \A i \in Calls :
    LET c == calls[i]
        a == AssembleRequest(client.base, c.in)
    IN (c.pc # "idle" /\ ~a.err.nil) =>
         /\ Returned(i)
         /\ c.res.nil
         /\ c.err.msg = ErrPrepare
         /\ ErrorsIs(c.err, a.err.msg)
         /\ c.doCount = 0

\* C6: when the transport returned a response, the body is closed exactly
\* once before SendRequest returns, on every exit path; when the transport
\* failed, no body is closed.
C6_BodyClosedOnce ==
  \A i \in Calls :
    LET c == calls[i]
    IN /\ (Returned(i) /\ c.gotResp) => c.closeCount = 1
       /\ ~c.gotResp => c.closeCount = 0
       /\ ~Returned(i) => c.closeCount = 0

\* C6 witness: a read failure and a send failure have both returned
C6_Witness ==
  \E i, j \in Calls :
    /\ ReadBroke(i) /\ calls[i].closeCount = 1
    /\ SendBroke(j) /\ calls[j].closeCount = 0

\* C7: a Close failure does not change what SendRequest returns: two calls
\* with the same transport response and the same read outcome return the same
\* Response and error, whatever Close did.
C7_CloseFailureNotReturned ==
  \A i, j \in Calls :
    ( /\ Returned(i) /\ Returned(j)
      /\ calls[i].gotResp /\ calls[j].gotResp
      /\ calls[i].resp = calls[j].resp
      /\ calls[i].readOk = calls[j].readOk
      /\ calls[i].ioErr = calls[j].ioErr )
    => /\ calls[i].res = calls[j].res
       /\ calls[i].err = calls[j].err

\* C7 witness: the same response, read completely, closed with and without
\* a Close error
C7_Witness ==
  \E i, j \in Calls :
    /\ Completed(i) /\ Completed(j)
    /\ calls[i].resp = calls[j].resp
    /\ calls[i].closeWarned /\ ~calls[j].closeWarned
    /\ calls[i].closeCount = 1 /\ calls[j].closeCount = 1

\* C8: every validation failure (empty method, unsupported method, absent
\* base) is returned by SendRequest as an error with a nil Response; a client
\* without base endpoint returns the preparation error, it does not abort.
C8_ValidationFailureReturned ==
  \A i \in Calls :
    LET c == calls[i]
    IN (c.pc # "idle"
          /\ (client.base.nil \/ ~validateMethod(c.in.method).err.nil)) =>
         /\ Returned(i)
         /\ c.res.nil
         /\ ErrorsIs(c.err, ErrPrepare)

\* the values of key k in map m, none when the key is absent
HeaderValues(m, k) == IF k \in DOMAIN m THEN m[k] ELSE <<>>

\* the request the transport received from call i is built from the client's
\* base and defaults and the call's own arguments, and from nothing else
OwnRequest(i) ==
  LET c == calls[i]
      defaults == Deref(heap, client.headers)
      own == IF c.in.hdrNil THEN EmptyMap ELSE c.in.hdr
  IN /\ c.sent.url = RenderParse(buildURL(client.base, c.in.path, c.in.params).u)
     /\ c.sent.method = ToUpper(c.in.method)
     /\ DOMAIN c.sent.header = DOMAIN defaults \cup DOMAIN own
     /\ \A k \in DOMAIN c.sent.header :
          c.sent.header[k] = HeaderValues(defaults, k) \o HeaderValues(own, k)

\* C9: with SendRequest calls running concurrently and no AddHeader,
\* AddHeaders or ReplaceHeaders call, no step changes the client's base
\* endpoint or default header set, and every request handed to the transport
\* carries its own URL and the defaults merged with its own request headers.
C9_ConcurrentCallsIsolated ==
  /\ [][ /\ client' = client
         /\ Deref(heap', client.headers) = Deref(heap, client.headers) ]_vars
  /\ [](\A i \in Calls : calls[i].doCount > 0 => OwnRequest(i))

\* C9 witness: two calls with different arguments are in flight together,
\* both handed to the transport
C9_Witness ==
  \E i, j \in Calls :
    /\ calls[i].pc = "sending" /\ calls[j].pc = "sending"
    /\ calls[i].in.path # calls[j].in.path
    /\ ~calls[i].in.hdrNil /\ calls[j].in.hdrNil
    /\ calls[i].sent.header # calls[j].sent.header
    /\ calls[i].sent.url # calls[j].sent.url

\* a cancelled call that returned came back through the send-failed path or
\* through the read-failed path
CancelledThroughSendOrRead(i) ==
  LET c == calls[i]
  IN \/ /\ c.res.nil
        /\ c.err.msg = ErrSend
        /\ ~c.gotResp
     \/ /\ ~c.res.nil
        /\ c.res.StatusCode = c.resp.status
        /\ c.res.Headers = c.resp.header
        /\ ErrorsIs(c.err, ErrFailedToReadResponseBody)

NoClientInUse ==
  /\ client = New.client
  /\ heap = EmptyHeap
  /\ calls = [i \in Calls |-> IdleCall]

(* ------------------------------------------------------------------ *)
(* validateMethod called with a method string                          *)
(* ------------------------------------------------------------------ *)

ToLowerChar(c) ==
  IF \E n \in 1..Len(UpperLetters) : UpperLetters[n] = c
    THEN LowerLetters[CHOOSE n \in 1..Len(UpperLetters) : UpperLetters[n] = c]
    ELSE c

\* every way of writing s with each letter in upper or lower case
RECURSIVE Casings(_)
Casings(s) ==
  IF s = <<>> THEN {<<>>}
  ELSE { <<c>> \o t : c \in {Head(s), ToLowerChar(Head(s))},
                       t \in Casings(Tail(s)) }

\* strings that are no method: unknown words, a method with a letter more or
\* less, a method with surrounding whitespace, whitespace alone
NotMethods ==
  { <<"F","O","O">>, <<"f","o","o">>, <<"G","E">>, <<"G","E","T","S">>,
    <<" ","G","E","T">>, <<"G","E","T"," ">>, <<" ","g","e","t"," ">>,
    <<"G"," ","E","T">>, <<" ">>, <<"P","O","S","T","\n">> }

MethodInputs ==
  UNION { Casings(M) : M \in SupportedMethods } \cup {<<>>} \cup NotMethods

ValidateProbe(method) ==
  [fn |-> "validateMethod", done |-> FALSE, method |-> method,
   out |-> [m |-> <<>>, err |-> NoError, arg |-> <<>>]]

InitValidate ==
  /\ NoClientInUse
  /\ probe \in {ValidateProbe(m) : m \in MethodInputs}

CallValidateMethod ==
  /\ probe.fn = "validateMethod"
  /\ ~probe.done
  /\ probe' = [probe EXCEPT !.done = TRUE,
                            !.out = validateMethod(probe.method)]
  /\ UNCHANGED <<client, heap, calls>>

NextValidate == CallValidateMethod

SpecValidate == InitValidate /\ [][NextValidate]_vars

\* s is M with some letters in lower case
IsCasingOf(s, M) ==
  /\ Len(s) = Len(M)
  /\ \A n \in 1..Len(M) : s[n] = M[n] \/ s[n] = ToLowerChar(M[n])

\* C11: validateMethod returns the upper-case method for each of the nine
\* supported methods in any letter-casing; for the empty string it fails with
\* the "empty" error; for every other string, a method with surrounding
\* whitespace included, it fails with the "unsupported" error, which carries
\* the input as it was given.
C11_ValidateMethod ==
  (probe.fn = "validateMethod" /\ probe.done) =>
    LET in == probe.method
        out == probe.out
    IN /\ \A M \in SupportedMethods :
            IsCasingOf(in, M) => (out.err.nil /\ out.m = M)
       /\ in = <<>> => (out.m = <<>> /\ out.err.msg = ErrMethodEmpty)
       /\ (in # <<>> /\ \A M \in SupportedMethods : ~IsCasingOf(in, M)) =>
            /\ out.m = <<>>
            /\ out.err.msg = ErrMethodUnsupported
            /\ out.arg = in

\* C11 witness: "pOSt" was validated and came back as "POST"
C11_Witness ==
  /\ probe.fn = "validateMethod" /\ probe.done
  /\ probe.method = <<"p","O","S","t">>
  /\ probe.out.m = <<"P","O","S","T">>
  /\ probe.out.err.nil

(* ------------------------------------------------------------------ *)
(* buildURL called with a base, an extra path and params               *)
(* ------------------------------------------------------------------ *)

\* the bases of the tests, with and without a path and a query, and no base
BuildBases ==
  { URL("https", "example.com", <<Sep, "api">>, <<>>),
    URL("https", "example.com", <<Sep, "api">>, << <<"foo", "1">> >>),
    URL("https", "example.com", <<Sep, "base">>,
        << <<"foo", "1">>, <<"bar", "0">>, <<"foo", "3">> >>),
    URL("https", "example.com", <<Sep, "api", Sep, "v0", Sep>>, <<>>),
    URL("https", "example.com", <<>>, <<>>),
    NilURL }

\* "", "/v12//items", "v2/items", "v1/../v2/items", "/", "..", "/../x",
\* "./items/", "/a/./b/../c", "../../x"
ExtraPaths ==
  { <<>>,
    <<Sep, "v12", Sep, Sep, "items">>,
    <<"v2", Sep, "items">>,
    <<"v1", Sep, "..", Sep, "v2", Sep, "items">>,
    <<Sep>>,
    <<"..">>,
    <<Sep, "..", Sep, "x">>,
    <<".", Sep, "items", Sep>>,
    <<Sep, "a", Sep, ".", Sep, "b", Sep, "..", Sep, "c">>,
    <<"..", Sep, "..", Sep, "x">> }

\* nil or empty params, the params of the test, one key with two values, a
\* key without values
ParamInputs ==
  { EmptyMap,
    ("foo" :> <<"2">>) @@ ("bar" :> <<"a", "b">>),
    ("p" :> <<"1", "2">>),
    ("bar" :> <<>>) }

NoBuilt == [u |-> NilURL, err |-> NoError]

\* base is the URL object behind the base pointer, base0 its value when the
\* call was made
BuildProbe(base, extraPath, params) ==
  [fn |-> "buildURL", done |-> FALSE, edited |-> FALSE, base0 |-> base,
   base |-> base, extraPath |-> extraPath, params |-> params, out |-> NoBuilt]

InitBuild ==
  /\ NoClientInUse
  /\ probe \in {BuildProbe(b, e, q) :
                  b \in BuildBases, e \in ExtraPaths, q \in ParamInputs}

CallBuildURL ==
  /\ probe.fn = "buildURL"
  /\ ~probe.done
  /\ LET r == buildURL(probe.base, probe.extraPath, probe.params)
     IN probe' = [probe EXCEPT !.done = TRUE, !.base = r.base,
                               !.out = [u |-> r.u, err |-> r.err]]
  /\ UNCHANGED <<client, heap, calls>>

ChangedHost == "changed.example.com"

\* the caller writes to the URL it got: got.Host = "changed.example.com"
EditBuilt ==
  /\ probe.fn = "buildURL"
  /\ probe.done /\ ~probe.edited
  /\ probe.out.err.nil
  /\ LET got == [probe.out.u EXCEPT !.host = ChangedHost]
     IN probe' = [probe EXCEPT !.edited = TRUE, !.out.u = got,
                               !.base = BaseAfterBuild(probe.base, got)]
  /\ UNCHANGED <<client, heap, calls>>

NextBuild == CallBuildURL \/ EditBuilt

SpecBuild == InitBuild /\ [][NextBuild]_vars

\* buildURL returned a URL
Built == probe.fn = "buildURL" /\ probe.done /\ probe.out.err.nil

\* the base path and the extra path with a separator between them
RawJoin(a, b) == IF a = <<>> THEN b ELSE a \o <<Sep>> \o b

IsPrefix(a, b) == Len(a) <= Len(b) /\ SubSeq(b, 1, Len(a)) = a

HasName(p, n) == \E x \in 1..Len(p) : p[x] = n

\* no "." or ".." element and no two separators in a row
IsClean(p) ==
  /\ ~HasName(p, ".") /\ ~HasName(p, "..")
  /\ \A x \in 1..(Len(p) - 1) : ~(p[x] = Sep /\ p[x + 1] = Sep)

\* the extra path of the call begins with a separator
LeadingSep == probe.extraPath # <<>> /\ Head(probe.extraPath) = Sep

\* C12 as stated: an extra path that begins with a separator replaces the
\* base path, the result path is the cleaned extra path.
C12_AbsoluteReplacesBase ==
  (Built /\ LeadingSep) => probe.out.u.path = PathClean(probe.extraPath)

\* C12 amended: an extra path that begins with a separator is joined below
\* the base path like any other: the result path is the cleaned join of base
\* path and extra path, and the base path stays its prefix unless ".."
\* elements of the extra path climb out of it.
C12_AbsoluteJoinedBelowBase ==
  (Built /\ LeadingSep) =>
    /\ probe.out.u.path = PathClean(RawJoin(probe.base0.path, probe.extraPath))
    /\ ~HasName(probe.extraPath, "..") =>
         IsPrefix(PathNames(probe.base0.path), PathNames(probe.out.u.path))

\* C12 witness: "/a/./b/../c" below "/base" gave "/base/a/c"
C12_Witness ==
  /\ Built
  /\ probe.base0.path = <<Sep, "base">>
  /\ probe.extraPath = <<Sep, "a", Sep, ".", Sep, "b", Sep, "..", Sep, "c">>
  /\ probe.out.u.path = <<Sep, "base", Sep, "a", Sep, "c">>

\* C13: an extra path with a leading separator is joined below the base path
\* with duplicate separators collapsed: the elements of the result are those
\* of the base path followed by those of the extra path, and "/v12//items"
\* on "/api" gives "/api/v12/items".
C13_LeadingSeparatorJoined ==
  (Built /\ LeadingSep) =>
    /\ (~HasName(probe.extraPath, ".") /\ ~HasName(probe.extraPath, "..")) =>
         /\ PathNames(probe.out.u.path) =
              PathNames(probe.base0.path) \o PathNames(probe.extraPath)
         /\ IsClean(probe.out.u.path)
    /\ (probe.base0.path = <<Sep, "api">>
          /\ probe.extraPath = <<Sep, "v12", Sep, Sep, "items">>) =>
         probe.out.u.path = <<Sep, "api", Sep, "v12", Sep, "items">>

C13_Witness ==
  /\ Built
  /\ probe.base0.path = <<Sep, "api">>
  /\ probe.extraPath = <<Sep, "v12", Sep, Sep, "items">>
  /\ probe.out.u.path = <<Sep, "api", Sep, "v12", Sep, "items">>

\* the extra path of the call is not empty and begins with a name
Relative == probe.extraPath # <<>> /\ Head(probe.extraPath) # Sep

\* C14: a non-empty extra path without leading separator is joined onto the
\* base path and the joined path is normalized: ".." is resolved against the
\* joined path and duplicate separators collapse; "/base" with
\* "v1/../v2/items" gives "/base/v2/items", "/api" with "v2/items" gives
\* "/api/v2/items".
C14_RelativeJoinedNormalized ==
  (Built /\ Relative) =>
    /\ probe.out.u.path = PathClean(RawJoin(probe.base0.path, probe.extraPath))
    /\ probe.base0.path # <<>> =>
         (IsClean(probe.out.u.path) /\ Head(probe.out.u.path) = Sep)
    /\ (probe.base0.path = <<Sep, "base">>
          /\ probe.extraPath = <<"v1", Sep, "..", Sep, "v2", Sep, "items">>) =>
         probe.out.u.path = <<Sep, "base", Sep, "v2", Sep, "items">>
    /\ (probe.base0.path = <<Sep, "api">>
          /\ probe.extraPath = <<"v2", Sep, "items">>) =>
         probe.out.u.path = <<Sep, "api", Sep, "v2", Sep, "items">>

C14_Witness ==
  /\ Built
  /\ probe.base0.path = <<Sep, "base">>
  /\ probe.extraPath = <<"v1", Sep, "..", Sep, "v2", Sep, "items">>
  /\ probe.out.u.path = <<Sep, "base", Sep, "v2", Sep, "items">>

\* the values of the entries of a raw query whose key is k, in order
RECURSIVE EntryValues(_, _)
EntryValues(raw, k) ==
  IF raw = <<>> THEN <<>>
  ELSE (IF Head(raw)[1] = k THEN <<Head(raw)[2]>> ELSE <<>>)
         \o EntryValues(Tail(raw), k)

EntryKeys(raw) == {raw[n][1] : n \in 1..Len(raw)}

\* C15: with non-empty params, every entry of the base's query is kept and
\* every value of every params key is added as an entry of its own; the
\* values of a key are the base's values followed by the params' values.
C15_ParamsAppended ==
  (Built /\ Cardinality(DOMAIN probe.params) > 0) =>
    LET raw == probe.out.u.rawQuery
        old == probe.base0.rawQuery
    IN /\ \A k \in EntryKeys(raw) \cup EntryKeys(old) \cup DOMAIN probe.params :
            EntryValues(raw, k) =
              EntryValues(old, k) \o HeaderValues(probe.params, k)
       /\ \A n \in 1..Len(raw) : Len(raw[n]) = 2

\* C15 witness: base "foo=1" with {foo:[2], bar:[a,b]}
C15_Witness ==
  /\ Built
  /\ probe.base0.rawQuery = << <<"foo", "1">> >>
  /\ probe.params = ("foo" :> <<"2">>) @@ ("bar" :> <<"a", "b">>)
  /\ EntryValues(probe.out.u.rawQuery, "foo") = <<"1", "2">>
  /\ EntryValues(probe.out.u.rawQuery, "bar") = <<"a", "b">>

\* C16: buildURL never changes the base: scheme, host, path and query of the
\* base are after the call what they were before; with an empty extra path
\* and no params the result has the base's scheme, host, path and query, and
\* changing the result afterwards leaves the base unchanged.
C16_BaseNotMutated ==
  (probe.fn = "buildURL" /\ probe.done) =>
    /\ probe.base = probe.base0
    /\ (probe.out.err.nil /\ ~probe.edited /\ probe.extraPath = <<>>
          /\ Cardinality(DOMAIN probe.params) = 0) =>
         /\ probe.out.u.scheme = probe.base0.scheme
         /\ probe.out.u.host = probe.base0.host
         /\ probe.out.u.path = probe.base0.path
         /\ probe.out.u.rawQuery = probe.base0.rawQuery

\* C16 witness: the result of a plain copy was edited, the base kept its host
C16_Witness ==
  /\ Built /\ probe.edited
  /\ probe.extraPath = <<>> /\ probe.params = EmptyMap
  /\ probe.out.u.host = ChangedHost
  /\ probe.base.host = "example.com"

(* ------------------------------------------------------------------ *)
(* mergeHeaders called with two header maps                            *)
(* ------------------------------------------------------------------ *)

\* header maps given as the first argument
MergeBaseInputs ==
  { EmptyMap,
    ("K" :> <<"b1", "b2">>) @@ ("A" :> <<"a1">>),
    ("X-A" :> <<"1", "2">>) @@ ("X-B" :> <<"b">>),
    ("X-Def" :> <<"A">>) @@ ("X-Both" :> <<"Base">>),
    ("k" :> <<"c1">>),
    ("k" :> <<"c1">>) @@ ("K" :> <<"b1">>),
    ("E" :> <<>>) }

\* header maps given as the second argument
MergeExtraInputs ==
  { EmptyMap,
    ("K" :> <<"e1">>) @@ ("Z" :> <<"z1", "z2">>),
    ("Y" :> <<"a">>),
    ("X-Req" :> <<"B">>) @@ ("X-Both" :> <<"Req">>),
    ("k" :> <<"e2">>),
    ("A" :> <<"a1">>) }

\* base and extra are pointers, nil or to the caller's maps in the heap
MergeProbe(base, extra) ==
  [fn |-> "mergeHeaders", done |-> FALSE, base |-> base, extra |-> extra,
   out |-> NilMap]

InitMerge ==
  /\ client = New.client
  /\ calls = [i \in Calls |-> IdleCall]
  /\ \E b \in MergeBaseInputs, e \in MergeExtraInputs :
       heap = [EmptyHeap EXCEPT ![DefaultsLoc] = b, ![ReqHdrLoc(1)] = e]
  /\ probe \in {MergeProbe(b, e) : b \in {NilMap, DefaultsLoc},
                                     e \in {NilMap, ReqHdrLoc(1)}}

CallMergeHeaders ==
  /\ probe.fn = "mergeHeaders"
  /\ ~probe.done
  /\ \E r \in mergeHeaders(heap, MergedLoc(1), probe.base, probe.extra) :
       /\ heap' = r.heap
       /\ probe' = [probe EXCEPT !.done = TRUE, !.out = r.ptr]
  /\ UNCHANGED <<client, calls>>

NextMerge == CallMergeHeaders

SpecMerge == InitMerge /\ [][NextMerge]_vars

RECURSIVE FlattenValues(_, _)
FlattenValues(h, order) ==
  IF order = <<>> THEN <<>>
  ELSE h[Head(order)] \o FlattenValues(h, Tail(order))

\* the value lists a map holds for header name K, the name compared without
\* regard to case; entries whose keys differ in case only have no order
\* among them
ValuesUnder(h, K) ==
  LET ks == {k \in DOMAIN h : CanonicalKey(k) = K}
      n == Cardinality(ks)
      orders == {o \in [1..n -> ks] : \A a, b \in 1..n : a # b => o[a] # o[b]}
  IN {FlattenValues(h, o) : o \in orders}

\* C17: mergeHeaders returns, for every header name, the values of the first
\* map in their order followed by the values of the second map in their
\* order, and no other key or value; either map may be nil, and two nil maps
\* give a non-nil empty map. {K:[b1,b2], A:[a1]} with {K:[e1], Z:[z1,z2]}
\* gives K:[b1,b2,e1], A:[a1], Z:[z1,z2].
C17_MergeOrder ==
  (probe.fn = "mergeHeaders" /\ probe.done) =>
    LET d == Deref(heap, probe.base)
        e == Deref(heap, probe.extra)
        m == Deref(heap, probe.out)
        names == {CanonicalKey(k) : k \in DOMAIN d \cup DOMAIN e}
    IN /\ probe.out # NilMap
       /\ DOMAIN m \subseteq names
       /\ \A K \in names :
            HeaderValues(m, K) \in
              {x \o y : x \in ValuesUnder(d, K), y \in ValuesUnder(e, K)}
       /\ (probe.base = NilMap /\ probe.extra = NilMap) => m = EmptyMap
       /\ (d = ("K" :> <<"b1", "b2">>) @@ ("A" :> <<"a1">>)
             /\ e = ("K" :> <<"e1">>) @@ ("Z" :> <<"z1", "z2">>)) =>
            m = ("K" :> <<"b1", "b2", "e1">>) @@ ("A" :> <<"a1">>)
                  @@ ("Z" :> <<"z1", "z2">>)

\* C17 witness: the two maps of the example were merged
C17_Witness ==
  /\ probe.fn = "mergeHeaders" /\ probe.done
  /\ probe.base = DefaultsLoc /\ probe.extra = ReqHdrLoc(1)
  /\ heap[DefaultsLoc] = ("K" :> <<"b1", "b2">>) @@ ("A" :> <<"a1">>)
  /\ heap[ReqHdrLoc(1)] = ("K" :> <<"e1">>) @@ ("Z" :> <<"z1", "z2">>)
  /\ heap[probe.out]["K"] = <<"b1", "b2", "e1">>
  /\ heap[probe.out]["Z"] = <<"z1", "z2">>

(* ------------------------------------------------------------------ *)
(* Changing header maps while requests are assembled                   *)
(* ------------------------------------------------------------------ *)

\* &Client{base: ...}: a client with a base and no default header map
ClientLiteral(base) ==
  [client |-> [base |-> base, headers |-> NilMap], heap |-> EmptyHeap]

\* the map a caller builds to pass it to AddHeaders or ReplaceHeaders
CallerHeaderInputs == { ("K" :> <<"c1">>) @@ ("Z" :> <<"z">>) }

\* the argument of AddHeaders and ReplaceHeaders: nil or the caller's map
HeaderArgs == {NilMap, CallerLoc}

\* through which reference the last change of a header map was made
ViaClient == <<"client", 0>>

ViaGiven == <<"given", 0>>

ViaCaller == <<"caller", 0>>

ViaRequestHeaders(i) == <<"headers", i>>

ViaMerged(i) == <<"merged", i>>

SetupProbe == [fn |-> "setup", done |-> FALSE, n |-> 0, via |-> ViaClient]

InitHeaders ==
  /\ \E c \in {NewHTTPClient(b, h) : b \in BaseURLs, h \in DefaultHeaderInputs}
                \cup {ClientLiteral(b) : b \in BaseURLs},
        m \in CallerHeaderInputs :
       /\ client = c.client
       /\ heap = [c.heap EXCEPT ![CallerLoc] = m]
  /\ calls = [i \in Calls |-> IdleCall]
  /\ probe = SetupProbe

\* one more change of a header map, made through reference via
SetupStep(via) ==
  /\ probe.fn = "setup"
  /\ probe.n < MaxSetupCalls
  /\ probe' = [probe EXCEPT !.n = @ + 1, !.via = via]

\* variant: c.headers = make(...) without the nil test
EnsureHeaders_alwaysMakes(hp, ptr, fresh) ==
  [heap |-> [hp EXCEPT ![fresh] = EmptyMap], ptr |-> fresh]

\* c.headers after "if c.headers == nil { c.headers = make(...) }"
EnsureHeaders(hp, ptr, fresh) ==
  IF ptr = NilMap
    THEN [heap |-> [hp EXCEPT ![fresh] = EmptyMap], ptr |-> fresh]
    ELSE [heap |-> hp, ptr |-> ptr]

\* Client.AddHeader(key, vals)
AddHeader(key, vals) ==
  /\ SetupStep(ViaClient)
  /\ LET e == EnsureHeaders(heap, client.headers, SetupLoc(probe.n + 1))
     IN /\ heap' = [e.heap EXCEPT ![e.ptr] = HeaderAddValues(@, key, vals)]
        /\ client' = [client EXCEPT !.headers = e.ptr]
  /\ UNCHANGED calls

\* Client.AddHeaders(h)
AddHeaders(h) ==
  /\ SetupStep(ViaClient)
  /\ IF h = NilMap
       THEN UNCHANGED <<client, heap>>
       ELSE LET e == EnsureHeaders(heap, client.headers, SetupLoc(probe.n + 1))
            IN \E order \in KeyOrders(heap[h]) :
                 /\ heap' = [e.heap EXCEPT ![e.ptr] =
                               HeaderAddAll(@, heap[h], order)]
                 /\ client' = [client EXCEPT !.headers = e.ptr]
  /\ UNCHANGED calls

\* variant: c.headers = h, the caller's map itself becomes the default set
ReplaceHeaders_storesArgument(h) ==
  /\ SetupStep(ViaClient)
  /\ IF h = NilMap
       THEN UNCHANGED client
       ELSE client' = [client EXCEPT !.headers = h]
  /\ UNCHANGED <<heap, calls>>

\* Client.ReplaceHeaders(h): a nil h returns at once
ReplaceHeaders(h) ==
  /\ SetupStep(ViaClient)
  /\ IF h = NilMap
       THEN UNCHANGED <<client, heap>>
       ELSE /\ heap' = [heap EXCEPT ![SetupLoc(probe.n + 1)] =
                          HeaderClone(heap[h])]
            /\ client' = [client EXCEPT !.headers = SetupLoc(probe.n + 1)]
  /\ UNCHANGED calls

\* the map behind a reference that some caller holds, nil when there is none
HeldMap(via) ==
  IF via = ViaClient THEN client.headers
  ELSE IF via = ViaGiven THEN DefaultsLoc
  ELSE IF via = ViaCaller THEN CallerLoc
  ELSE IF via[1] = "headers"
    THEN (IF calls[via[2]].pc = "idle" THEN NilMap
          ELSE HdrPtr(via[2], calls[via[2]].in))
  ELSE (IF calls[via[2]].pc = "sending" THEN calls[via[2]].req.header
        ELSE NilMap)

Vias ==
  {ViaClient, ViaGiven, ViaCaller}
    \cup {ViaRequestHeaders(i) : i \in Calls} \cup {ViaMerged(i) : i \in Calls}

EditedKey == "K"

\* an edit in place: h.Add("K", "ed"), h["K"][0] = "ed" or delete(h, "K")
Edited(m, kind) ==
  IF kind = "add" THEN HeaderAdd(m, EditedKey, "ed")
  ELSE IF kind = "set"
    THEN [m EXCEPT ![EditedKey] = [@ EXCEPT ![1] = "ed"]]
  ELSE [k \in DOMAIN m \ {EditedKey} |-> m[k]]

\* some code that holds a reference to a header map edits the map in place
EditMap(via, kind) ==
  /\ SetupStep(via)
  /\ HeldMap(via) # NilMap
  /\ kind \in {"set", "del"} =>
       (EditedKey \in DOMAIN heap[HeldMap(via)]
          /\ heap[HeldMap(via)][EditedKey] # <<>>)
  /\ heap' = [heap EXCEPT ![HeldMap(via)] = Edited(@, kind)]
  /\ UNCHANGED <<client, calls>>

\* one request is assembled while the default headers change
NextHeaders ==
  \/ \E in \in ConcInputs : Start(1, in)
  \/ Merge(1)
  \/ AddHeader("K", <<"n1", "n2">>)
  \/ \E h \in HeaderArgs : AddHeaders(h)
  \/ \E h \in HeaderArgs : ReplaceHeaders(h)
  \/ \E via \in Vias : \E kind \in {"add", "set", "del"} : EditMap(via, kind)

SpecHeaders == InitHeaders /\ [][NextHeaders]_vars

\* the request of call i is assembled: req.Header holds the merged map
Assembled(i) == calls[i].pc = "sending"

\* this step changes a header map through reference via
ChangeVia(via) == probe'.n # probe.n /\ probe'.via = via

\* C18: mergeHeaders changes neither of its inputs and returns a map of its
\* own: no later change of the default set (AddHeader, AddHeaders,
\* ReplaceHeaders, edits in place) or of the request headers changes the
\* merged headers of a request that is already assembled, and no change of
\* the merged headers changes the default set or the request headers.
C18_MergedNotShared ==
  /\ [][\A i \in Calls :
          (calls[i].pc = "merge" /\ calls'[i].pc = "sending") =>
            LET given == HdrPtr(i, calls[i].in)
            IN /\ client' = client
               /\ Deref(heap', client.headers) = Deref(heap, client.headers)
               /\ Deref(heap', given) = Deref(heap, given)
               /\ calls'[i].req.header \notin {NilMap, client.headers, given}
       ]_vars
  /\ [][\A i \in Calls :
          (Assembled(i) /\ ~ChangeVia(ViaMerged(i))) =>
            Deref(heap', calls[i].req.header) = Deref(heap, calls[i].req.header)
       ]_vars
  /\ [][\A i \in Calls :
          (Assembled(i) /\ ChangeVia(ViaMerged(i))) =>
            LET given == HdrPtr(i, calls[i].in)
            IN /\ client' = client
               /\ Deref(heap', client.headers) = Deref(heap, client.headers)
               /\ Deref(heap', given) = Deref(heap, given)
               /\ heap'[DefaultsLoc] = heap[DefaultsLoc]
       ]_vars

\* C18 witness: a request with request headers was assembled, AddHeader then
\* added to the default set, and the merged headers are those of the merge
C18_Witness ==
  \E i \in Calls :
    /\ Assembled(i) /\ ~calls[i].in.hdrNil
    /\ probe.fn = "setup" /\ probe.n > 0 /\ probe.via = ViaClient
    /\ HeaderValues(Deref(heap, client.headers), "K")
         = <<"b1", "b2", "n1", "n2">>
    /\ heap[calls[i].req.header]["K"] = <<"b1", "b2", "e1">>
    /\ heap[calls[i].req.header] = calls[i].sent.header

(* ------------------------------------------------------------------ *)
(* url.Parse on strings of characters, and NewHTTPClient(baseURL)      *)
(* ------------------------------------------------------------------ *)

\* the characters of the base URL strings: a letter, a digit, and the
\* characters url.Parse gives a meaning to
URLChars == {"h", "1", ":", "/", "%", "?"}

IsLetter(c) == \E n \in 1..Len(LowerLetters) : c \in {LowerLetters[n], UpperLetters[n]}

IsDigit(c) == c \in {"0", "1", "2", "3", "4", "5", "6", "7", "8", "9"}

IsHex(c) ==
  IsDigit(c) \/ c \in {"a", "b", "c", "d", "e", "f", "A", "B", "C", "D", "E", "F"}

\* strings.Index: the position of the first c in s, 0 when there is none
IndexOf(s, c) ==
  IF \E n \in 1..Len(s) : s[n] = c
    THEN CHOOSE n \in 1..Len(s) : s[n] = c /\ \A x \in 1..(n - 1) : s[x] # c
    ELSE 0

\* strings.LastIndex
LastIndexOf(s, c) ==
  IF \E n \in 1..Len(s) : s[n] = c
    THEN CHOOSE n \in 1..Len(s) : s[n] = c /\ \A x \in (n + 1)..Len(s) : s[x] # c
    ELSE 0

CountOf(s, c) == Cardinality({n \in 1..Len(s) : s[n] = c})

HasPrefixStr(s, p) == Len(p) <= Len(s) /\ SubSeq(s, 1, Len(p)) = p

ErrMissingScheme == "missing protocol scheme"

ErrColonInFirstSegment == "first path segment in URL cannot contain colon"

ErrInvalidPort == "invalid port after host"

ErrInvalidEscape == "invalid URL escape"

ErrInvalidHostChar == "invalid character in host name"

\* getScheme: scan for the first character that ends or excludes a scheme
RECURSIVE getScheme(_, _)
getScheme(rawURL, i) ==
  IF i > Len(rawURL) THEN [scheme |-> <<>>, rest |-> rawURL, err |-> NoError]
  ELSE LET c == rawURL[i]
       IN IF IsLetter(c) THEN getScheme(rawURL, i + 1)
          ELSE IF IsDigit(c) \/ c \in {"+", "-", "."}
            THEN IF i = 1
                   THEN [scheme |-> <<>>, rest |-> rawURL, err |-> NoError]
                   ELSE getScheme(rawURL, i + 1)
          ELSE IF c = ":"
            THEN IF i = 1
                   THEN [scheme |-> <<>>, rest |-> <<>>,
                         err |-> NewError(ErrMissingScheme)]
                   ELSE [scheme |-> SubSeq(rawURL, 1, i - 1),
                         rest |-> SubSeq(rawURL, i + 1, Len(rawURL)),
                         err |-> NoError]
          ELSE [scheme |-> <<>>, rest |-> rawURL, err |-> NoError]

\* validOptionalPort: empty, or a colon followed by digits only
validOptionalPort(port) ==
  \/ port = <<>>
  \/ Head(port) = ":" /\ \A n \in 2..Len(port) : IsDigit(port[n])

\* unescape: the error of the first faulty character from position i on;
\* in a host, an escape below %80 other than %25 and a character that must
\* be escaped are errors
RECURSIVE unescapeErr(_, _, _)
unescapeErr(str, i, inHost) ==
  IF i > Len(str) THEN NoError
  ELSE IF str[i] = "%"
    THEN IF i + 2 > Len(str) \/ ~IsHex(str[i + 1]) \/ ~IsHex(str[i + 2])
           THEN NewError(ErrInvalidEscape)
         ELSE IF inHost /\ str[i + 1] \in {"0", "1", "2", "3", "4", "5", "6", "7"}
                 /\ SubSeq(str, i, i + 2) # <<"%", "2", "5">>
           THEN NewError(ErrInvalidEscape)
         ELSE unescapeErr(str, i + 3, inHost)
  ELSE IF inHost /\ str[i] \in {"/", "?", " ", "#", "@"}
    THEN NewError(ErrInvalidHostChar)
  ELSE unescapeErr(str, i + 1, inHost)

\* parseHost on an authority without user information and without brackets
parseHost(host) ==
  LET i == LastIndexOf(host, ":")
  IN IF i # 0 /\ ~validOptionalPort(SubSeq(host, i, Len(host)))
       THEN NewError(ErrInvalidPort)
       ELSE unescapeErr(host, 1, TRUE)

NoParsed ==
  [nil |-> TRUE, scheme |-> <<>>, opaque |-> <<>>, host |-> <<>>,
   path |-> <<>>, rawQuery |-> <<>>]

\* url.Parse(rawURL) for strings without fragment: the URL and the error;
\* host and path are kept as they are written
urlParse(rawURL) ==
  LET gs == getScheme(rawURL, 1)
      scheme == [n \in 1..Len(gs.scheme) |-> ToLowerChar(gs.scheme[n])]
      q == IndexOf(gs.rest, "?")
      forceQuery == q # 0 /\ q = Len(gs.rest) /\ CountOf(gs.rest, "?") = 1
      rest == IF q = 0 THEN gs.rest ELSE SubSeq(gs.rest, 1, q - 1)
      rawQuery == IF q = 0 \/ forceQuery THEN <<>>
                  ELSE SubSeq(gs.rest, q + 1, Len(gs.rest))
      rooted == HasPrefixStr(rest, <<"/">>)
      slash == IndexOf(rest, "/")
      segment == IF slash = 0 THEN rest ELSE SubSeq(rest, 1, slash - 1)
      hasAuthority == (scheme # <<>> \/ ~HasPrefixStr(rest, <<"/", "/", "/">>))
                        /\ HasPrefixStr(rest, <<"/", "/">>)
      afterSlashes == SubSeq(rest, 3, Len(rest))
      end == IndexOf(afterSlashes, "/")
      authority == IF end = 0 THEN afterSlashes
                   ELSE SubSeq(afterSlashes, 1, end - 1)
      path == IF ~hasAuthority THEN rest
              ELSE IF end = 0 THEN <<>>
              ELSE SubSeq(afterSlashes, end, Len(afterSlashes))
      ok(u) == [u |-> u, err |-> NoError]
      fail(e) == [u |-> NoParsed, err |-> e]
      url == [nil |-> FALSE, scheme |-> scheme, opaque |-> <<>>,
              host |-> <<>>, path |-> <<>>, rawQuery |-> rawQuery]
  IN IF ~gs.err.nil THEN fail(gs.err)
     ELSE IF ~rooted /\ scheme # <<>>
       THEN ok([url EXCEPT !.opaque = rest])
     ELSE IF ~rooted /\ CountOf(segment, ":") > 0
       THEN fail(NewError(ErrColonInFirstSegment))
     ELSE IF hasAuthority /\ ~parseHost(authority).nil
       THEN fail(parseHost(authority))
     ELSE IF ~unescapeErr(path, 1, FALSE).nil
       THEN fail(unescapeErr(path, 1, FALSE))
     ELSE ok([url EXCEPT !.host = IF hasAuthority THEN authority ELSE <<>>,
                         !.path = path])

\* every string of at most n characters
RECURSIVE StringsUpTo(_)
StringsUpTo(n) ==
  IF n = 0 THEN {<<>>}
  ELSE LET shorter == StringsUpTo(n - 1)
       IN shorter \cup {Append(str, c) : str \in shorter, c \in URLChars}

BaseURLStrings == StringsUpTo(MaxURLLen)

\* NewHTTPClient(baseURL) without options: nil and the parse error, or a
\* Client holding the parsed base and the resolved defaults
NewHTTPClientFromString(baseURL) ==
  LET p == urlParse(baseURL)
  IN IF ~p.err.nil
       THEN [clientNil |-> TRUE, base |-> NoParsed, headers |-> NilMap,
             err |-> Wrap("invalid base url", p.err)]
       ELSE [clientNil |-> FALSE, base |-> p.u, headers |-> DefaultsLoc,
             err |-> NoError]

NewClientProbe(baseURL) ==
  [fn |-> "NewHTTPClient", done |-> FALSE, baseURL |-> baseURL,
   out |-> [clientNil |-> TRUE, base |-> NoParsed, headers |-> NilMap,
            err |-> NoError]]

InitNewClient ==
  /\ NoClientInUse
  /\ probe \in {NewClientProbe(str) : str \in BaseURLStrings}

CallNewHTTPClient ==
  /\ probe.fn = "NewHTTPClient"
  /\ ~probe.done
  /\ probe' = [probe EXCEPT !.done = TRUE,
                            !.out = NewHTTPClientFromString(probe.baseURL)]
  /\ UNCHANGED <<client, heap, calls>>

NextNewClient == CallNewHTTPClient

SpecNewClient == InitNewClient /\ [][NextNewClient]_vars

\* URL.IsAbs: the URL has a scheme
IsAbs(u) == ~u.nil /\ u.scheme # <<>>

\* C19: NewHTTPClient accepts a base URL string only if it parses as a valid
\* absolute URL: for every other string (unparsable, empty, relative) it
\* returns a nil client and an error; whenever it returns a client, the
\* error is nil and the client's base is non-nil.
C19_OnlyAbsoluteBaseAccepted ==
  (probe.fn = "NewHTTPClient" /\ probe.done) =>
    /\ ~probe.out.clientNil => (probe.out.err.nil /\ ~probe.out.base.nil)
    /\ probe.out.clientNil => ~probe.out.err.nil
    /\ ~probe.out.clientNil => IsAbs(probe.out.base)

(* ------------------------------------------------------------------ *)
(* Options: WithLogger, WithTimeout, WithHeaders, applyOptions         *)
(* ------------------------------------------------------------------ *)

\* a time.Duration is counted in milliseconds
Millisecond == 1

Second == 1000 * Millisecond

DefaultTimeout == 10 * Second

\* a *zerolog.Logger: nil, the caller's logger, or the no-op logger made by
\* normalizeLogger
NilLogger == "nil"

CallerLogger == "caller"

NopLogger == "nop"

WithLogger(lg) == [set |-> "lg", val |-> lg]

WithTimeout(timeout) == [set |-> "timeout", val |-> timeout]

WithHeaders(headers) == [set |-> "headers", val |-> headers]

\* var o optionList: the zero value
ZeroOptions == [lg |-> NilLogger, timeout |-> 0, headers |-> NilMap]

\* variant: an option sets its field only while the field is unset
ApplyOption_keepsFirst(o, opt) ==
  IF opt.set = "lg"
    THEN (IF o.lg = NilLogger THEN [o EXCEPT !.lg = opt.val] ELSE o)
  ELSE IF opt.set = "timeout"
    THEN (IF o.timeout = 0 THEN [o EXCEPT !.timeout = opt.val] ELSE o)
  ELSE (IF o.headers = NilMap THEN [o EXCEPT !.headers = opt.val] ELSE o)

\* opt(&o)
ApplyOption(o, opt) ==
  IF opt.set = "lg" THEN [o EXCEPT !.lg = opt.val]
  ELSE IF opt.set = "timeout" THEN [o EXCEPT !.timeout = opt.val]
  ELSE [o EXCEPT !.headers = opt.val]

RECURSIVE ApplyAll(_, _)
ApplyAll(o, opts) ==
  IF opts = <<>> THEN o ELSE ApplyAll(ApplyOption(o, Head(opts)), Tail(opts))

normalizeLogger(lg) == IF lg = NilLogger THEN NopLogger ELSE lg

normalizeTimeout(timeout) == IF timeout = 0 THEN DefaultTimeout ELSE timeout

\* a nil map is replaced by a new empty map, which becomes the client's
normalizeHeaders(headers) == IF headers = NilMap THEN DefaultsLoc ELSE headers

applyOptions(opts) ==
  LET o == ApplyAll(ZeroOptions, opts)
  IN [lg |-> normalizeLogger(o.lg),
      timeout |-> normalizeTimeout(o.timeout),
      headers |-> normalizeHeaders(o.headers)]

\* the options a caller can give: a logger or nil, a timeout that is zero,
\* positive or negative, a header map or nil
OptionInputs ==
  { WithLogger(NilLogger), WithLogger(CallerLogger),
    WithTimeout(0), WithTimeout(1234 * Millisecond), WithTimeout(0 - Second),
    WithHeaders(NilMap), WithHeaders(CallerLoc) }

RECURSIVE OptionLists(_)
OptionLists(n) ==
  IF n = 0 THEN {<<>>}
  ELSE LET shorter == OptionLists(n - 1)
       IN shorter \cup {Append(l, o) : l \in shorter, o \in OptionInputs}

OptionsProbe(opts) ==
  [fn |-> "applyOptions", done |-> FALSE, opts |-> opts, out |-> ZeroOptions]

InitOptions ==
  /\ NoClientInUse
  /\ probe \in {OptionsProbe(l) : l \in OptionLists(MaxOptions)}

CallApplyOptions ==
  /\ probe.fn = "applyOptions"
  /\ ~probe.done
  /\ probe' = [probe EXCEPT !.done = TRUE, !.out = applyOptions(probe.opts)]
  /\ UNCHANGED <<client, heap, calls>>

NextOptions == CallApplyOptions

SpecOptions == InitOptions /\ [][NextOptions]_vars

\* the timeout the caller gave last, 0 when none was given
GivenTimeout(opts) == ApplyAll(ZeroOptions, opts).timeout

\* C20: for every list of options the resolved configuration has a non-nil
\* logger, a strictly positive timeout (DefaultTimeout when the caller gave
\* zero or none) and a non-nil header map.
C20_ResolvedOptions ==
  (probe.fn = "applyOptions" /\ probe.done) =>
    /\ probe.out.lg # NilLogger
    /\ probe.out.timeout > 0
    /\ GivenTimeout(probe.opts) = 0 => probe.out.timeout = DefaultTimeout
    /\ probe.out.headers # NilMap

(* ------------------------------------------------------------------ *)
(* The verb wrappers Get, Head, Options, Post, Put, Patch, Delete      *)
(* ------------------------------------------------------------------ *)

Verbs == {"Get", "Head", "Options", "Post", "Put", "Patch", "Delete"}

\* the net/http method constant each wrapper passes to SendRequest
VerbMethod ==
  [Get |-> <<"G","E","T">>, Head |-> <<"H","E","A","D">>,
   Options |-> <<"O","P","T","I","O","N","S">>,
   Post |-> <<"P","O","S","T">>, Put |-> <<"P","U","T">>,
   Patch |-> <<"P","A","T","C","H">>,
   Delete |-> <<"D","E","L","E","T","E">>]

\* the wrappers whose signature has no body parameter
BodilessVerbs == {"Get", "Head", "Options"}

\* variant: Delete calls SendRequest with a nil body, like Get
VerbWrapper_deleteWithoutBody(verb, a) ==
  CallInput(VerbMethod[verb], a.path, a.params, a.hdrNil, a.hdr, a.ctxNil,
            IF verb \in BodilessVerbs \cup {"Delete"} THEN <<>> ELSE a.body)

\* the SendRequest call a wrapper makes with the caller's arguments a
VerbWrapper(verb, a) ==
  CallInput(VerbMethod[verb], a.path, a.params, a.hdrNil, a.hdr, a.ctxNil,
            IF verb \in BodilessVerbs THEN <<>> ELSE a.body)

\* what callers pass to a wrapper: a path, params, request headers, a
\* context, and (where the wrapper takes one) a body or nil
VerbArgs ==
  { [path |-> <<Sep, "v1", Sep, "items">>, params |-> EmptyMap,
     hdrNil |-> TRUE, hdr |-> EmptyMap, ctxNil |-> FALSE, body |-> <<"x">>],
    [path |-> <<Sep, "v1", Sep, "items">>, params |-> EmptyMap,
     hdrNil |-> TRUE, hdr |-> EmptyMap, ctxNil |-> FALSE, body |-> <<>>],
    [path |-> <<"v1">>, params |-> ("p" :> <<"1">>),
     hdrNil |-> FALSE, hdr |-> ("K" :> <<"e1">>), ctxNil |-> FALSE,
     body |-> <<"x">>],
    [path |-> <<>>, params |-> EmptyMap,
     hdrNil |-> TRUE, hdr |-> EmptyMap, ctxNil |-> TRUE, body |-> <<"x">>] }

\* goroutine 1 calls the wrapper, goroutine 2 calls SendRequest itself
InitVerbs ==
  /\ \E c \in {NewHTTPClient(b, h) : b \in BaseURLs, h \in DefaultHeaderInputs} :
       /\ client = c.client
       /\ heap = c.heap
  /\ calls = [i \in Calls |-> IdleCall]
  /\ \E verb \in Verbs, a \in VerbArgs :
       /\ verb \in BodilessVerbs => a.body = <<>>
       /\ probe = [fn |-> "verb", done |-> FALSE, verb |-> verb, args |-> a]

\* c.Get(ctx, path, params, headers), c.Post(ctx, path, params, headers, body)
CallVerb ==
  /\ probe.fn = "verb"
  /\ Start(1, VerbWrapper(probe.verb, probe.args))

\* c.SendRequest(ctx, method, path, params, headers, body) with the same
\* arguments and the wrapper's method
CallSendRequest ==
  /\ probe.fn = "verb"
  /\ Start(2, [probe.args EXCEPT
                 !.body = IF probe.verb \in BodilessVerbs THEN <<>> ELSE @]
              @@ [method |-> VerbMethod[probe.verb]])

NextVerbs ==
  \/ CallVerb
  \/ CallSendRequest
  \/ \E i \in Calls : Merge(i)
  \/ \E i \in Calls : \E r \in Responses : TransportRespond(i, r)
  \/ \E i \in Calls : TransportFail(i)
  \/ \E i \in Calls : \E closeOk \in BOOLEAN : ReadOk(i, closeOk)
  \/ \E i \in Calls : \E closeOk \in BOOLEAN : ReadFail(i, closeOk)

SpecVerbs == InitVerbs /\ [][NextVerbs]_vars

\* the transport treated the two calls alike
SameTransport(i, j) ==
  /\ calls[i].gotResp = calls[j].gotResp
  /\ calls[i].resp = calls[j].resp
  /\ calls[i].readOk = calls[j].readOk
  /\ calls[i].ioErr = calls[j].ioErr

\* C21: a verb wrapper returns exactly what SendRequest returns for the same
\* context, path, params and headers with the method fixed (GET, HEAD,
\* OPTIONS with a nil body; POST, PUT, PATCH, DELETE with the caller's body):
\* the two calls hand the same request to the transport, and when the
\* transport treats them alike they return the same Response and error.
C21_WrapperDelegates ==
  probe.fn = "verb" =>
    /\ (calls[1].pc # "idle" /\ calls[2].pc # "idle") =>
         /\ calls[1].in = calls[2].in
         /\ calls[1].in.method = VerbMethod[probe.verb]
         /\ calls[1].in.body =
              (IF probe.verb \in BodilessVerbs THEN <<>> ELSE probe.args.body)
    /\ (calls[1].doCount > 0 /\ calls[2].doCount > 0) =>
         /\ calls[1].sent = calls[2].sent
         /\ calls[1].req.body = calls[2].req.body
    /\ (Returned(1) /\ Returned(2) /\ SameTransport(1, 2)) =>
         /\ calls[1].res = calls[2].res
         /\ calls[1].err = calls[2].err

\* C21 witness: Delete with a body and SendRequest("DELETE", ..., body) both
\* completed with the same answer
C21_Witness ==
  /\ probe.fn = "verb" /\ probe.verb = "Delete" /\ probe.args.body = <<"x">>
  /\ Completed(1) /\ Completed(2) /\ SameTransport(1, 2)
  /\ calls[1].req.body = <<"x">>
  /\ calls[1].sent.method = <<"D","E","L","E","T","E">>
  /\ calls[1].res = calls[2].res /\ ~calls[1].res.nil

\* C22: ReplaceHeaders(nil) resets the client's default headers to an empty
\* map, whatever they held before.
C22_ReplaceNilResets ==
  [][ReplaceHeaders(NilMap) =>
       /\ client'.headers # NilMap
       /\ Deref(heap', client'.headers) = EmptyMap
    ]_vars

\* C23: the client's default header set changes only through AddHeader,
\* AddHeaders and ReplaceHeaders: after NewHTTPClient(base, WithHeaders(h)) no
\* later change the caller makes to h alters the defaults merged into
\* subsequent requests, and no SendRequest call alters the defaults.
C23_DefaultsChangeOnlyBySetters ==
  [][~ChangeVia(ViaClient) =>
       /\ client'.headers = client.headers
       /\ Deref(heap', client.headers) = Deref(heap, client.headers)
    ]_vars

(* ------------------------------------------------------------------ *)
(* newRequestWithParams called on a client                             *)
(* ------------------------------------------------------------------ *)

\* the arguments of the call: a method that is valid, lower-case, empty or
\* unsupported, a context or nil, a path or none, params or none, request
\* headers or nil
AssembleInputs ==
  { CallInput(m, p, q, h = EmptyMap, h, ctxNil, <<>>) :
      m \in {<<"G","E","T">>, <<"g","e","t">>, <<>>, <<"I","N","V">>},
      p \in {<<>>, <<"v1", Sep, "items">>},
      q \in {EmptyMap, ("p" :> <<"1", "2">>)},
      h \in {EmptyMap, ("K" :> <<"e1">>)},
      ctxNil \in BOOLEAN }

InitAssemble ==
  /\ \E c \in {NewHTTPClient(b, h) : b \in BaseURLs, h \in DefaultHeaderInputs}
                \cup {New},
        in \in AssembleInputs :
       /\ client = c.client
       /\ heap = IF in.hdrNil THEN c.heap
                 ELSE [c.heap EXCEPT ![ReqHdrLoc(1)] = in.hdr]
       /\ probe = [fn |-> "newRequestWithParams", done |-> FALSE, in |-> in,
                   out |-> [req |-> NilRequest, err |-> NoError]]
  /\ calls = [i \in Calls |-> IdleCall]

\* c.newRequestWithParams(ctx, method, path, params, headers, body): the
\* request is assembled, then req.Header = mergeHeaders(c.headers, headers)
CallNewRequestWithParams ==
  /\ probe.fn = "newRequestWithParams"
  /\ ~probe.done
  /\ LET a == AssembleRequest(client.base, probe.in)
     IN /\ IF a.err.nil
             THEN \E r \in mergeHeaders(heap, MergedLoc(1), client.headers,
                                        HdrPtr(1, probe.in)) :
                    /\ heap' = r.heap
                    /\ probe' = [probe EXCEPT
                                   !.done = TRUE,
                                   !.out = [req |-> [a.req EXCEPT
                                                       !.header = r.ptr],
                                            err |-> NoError]]
             ELSE /\ heap' = heap
                  /\ probe' = [probe EXCEPT
                                 !.done = TRUE,
                                 !.out = [req |-> NilRequest, err |-> a.err]]
        /\ client' = [client EXCEPT !.base = a.base]
  /\ UNCHANGED calls

SpecAssemble == InitAssemble /\ [][CallNewRequestWithParams]_vars

\* C24: newRequestWithParams applies build-URL, validate-method,
\* construct-request, merge-headers in this order and the first failure wins:
\* with an absent base the error is the nil-base error even when the method
\* is invalid too; the errors of buildURL and validateMethod are returned
\* unchanged, not wrapped, with a nil request; headers are merged only into
\* a constructed request.
C24_FirstFailureWins ==
  (probe.fn = "newRequestWithParams" /\ probe.done) =>
    LET in == probe.in
        out == probe.out
        vm == validateMethod(in.method)
    IN /\ client.base.nil =>
            /\ out.err = NewError(ErrBaseNil)
            /\ out.req.nil
       /\ (~client.base.nil /\ ~vm.err.nil) =>
            /\ out.err = vm.err
            /\ out.err.wraps = {out.err.msg}
            /\ out.req.nil
       /\ (~client.base.nil /\ vm.err.nil /\ in.ctxNil) =>
            /\ out.err = NewError(ErrNilContext)
            /\ out.req.nil
       /\ (~client.base.nil /\ vm.err.nil /\ ~in.ctxNil) =>
            /\ out.err.nil
            /\ ~out.req.nil
            /\ out.req.method = vm.m
            /\ out.req.header = MergedLoc(1)
       /\ out.req.nil => heap[MergedLoc(1)] = EmptyMap

\* C24 witness: a client without base was given an unsupported method and
\* returned the nil-base error and no request
C24_Witness ==
  /\ probe.fn = "newRequestWithParams" /\ probe.done
  /\ client.base.nil
  /\ probe.in.method = <<"I","N","V">>
  /\ probe.out.err.msg = ErrBaseNil
  /\ probe.out.req.nil

(* ------------------------------------------------------------------ *)
(* Further properties of SendRequest                                   *)
(* ------------------------------------------------------------------ *)

\* C25: no SendRequest call is retried: within one call the transport is
\* invoked at most once and the response body is read at most once, whatever
\* the outcome (send failure, read failure, non-2xx status).
C25_NoRetry ==
  \A i \in Calls :
    LET c == calls[i]
    IN /\ c.doCount <= 1
       /\ c.readCount <= 1
       /\ c.readCount = 1 => (c.doCount = 1 /\ c.gotResp)
       /\ SendBroke(i) => (c.doCount = 1 /\ c.readCount = 0)
       /\ ReadBroke(i) => (c.doCount = 1 /\ c.readCount = 1)
       /\ Completed(i) => (c.doCount = 1 /\ c.readCount = 1)

\* C25 witness: a send failure, and a read failure on a non-2xx response,
\* have both returned after one transport call each
C25_Witness ==
  \E i, j \in Calls :
    /\ SendBroke(i) /\ calls[i].doCount = 1 /\ calls[i].readCount = 0
    /\ ReadBroke(j) /\ calls[j].doCount = 1 /\ calls[j].readCount = 1
    /\ calls[j].resp.status = 300

(* ------------------------------------------------------------------ *)
(* Properties of AddHeader, AddHeaders and ReplaceHeaders              *)
(* ------------------------------------------------------------------ *)

\* map new holds, under every key, the values of old followed by the values
\* of added, and no other key
Appended(old, added, new) ==
  /\ DOMAIN new = DOMAIN old \cup DOMAIN added
  /\ \A k \in DOMAIN new :
       new[k] = HeaderValues(old, k) \o HeaderValues(added, k)

\* C26: AddHeader(key, vals) and AddHeaders(h) use add semantics on the
\* default header set: each affected key holds its previous values followed
\* by the new values in order, no existing value is removed or replaced, all
\* other keys are unchanged, and a nil default map is initialized first;
\* AddHeaders(nil) changes nothing and leaves a nil default map nil.
C26_AddSemantics ==
  [][ /\ AddHeader("K", <<"n1", "n2">>) =>
           /\ client'.headers # NilMap
           /\ client.headers # NilMap => client'.headers = client.headers
           /\ Appended(Deref(heap, client.headers), ("K" :> <<"n1", "n2">>),
                       heap'[client'.headers])
      /\ AddHeaders(CallerLoc) =>
           /\ client'.headers # NilMap
           /\ client.headers # NilMap => client'.headers = client.headers
           /\ Appended(Deref(heap, client.headers), heap[CallerLoc],
                       heap'[client'.headers])
      /\ AddHeaders(NilMap) =>
           /\ client' = client
           /\ heap' = heap
    ]_vars

\* C26 witness: AddHeader initialized a nil default map, then AddHeaders
\* appended the caller's values
C26_Witness ==
  /\ probe.fn = "setup" /\ probe.n = 2 /\ probe.via = ViaClient
  /\ heap[DefaultsLoc] = EmptyMap
  /\ client.headers = SetupLoc(1)
  /\ heap[SetupLoc(1)] = ("K" :> <<"n1", "n2", "c1">>) @@ ("Z" :> <<"z">>)

\* C27: AddHeaders(h) and ReplaceHeaders(h) with a non-nil h never alias the
\* caller's map: the default set is never the map h itself, the call leaves
\* h as it was, adding to h or editing its values in place afterwards leaves
\* the client's default headers unchanged, and changing the client's default
\* headers leaves h unchanged.
C27_CallerMapNotAliased ==
  /\ [](client.headers # CallerLoc)
  /\ [][(AddHeaders(CallerLoc) \/ ReplaceHeaders(CallerLoc)) =>
          heap'[CallerLoc] = heap[CallerLoc]
       ]_vars
  /\ [][ChangeVia(ViaCaller) =>
          /\ client' = client
          /\ Deref(heap', client.headers) = Deref(heap, client.headers)
       ]_vars
  /\ [][Deref(heap', client'.headers) # Deref(heap, client.headers) =>
          heap'[CallerLoc] = heap[CallerLoc]
       ]_vars

\* C27 witness: ReplaceHeaders(h) made the default set from h, then the
\* caller added to h; the default set still holds the values of the call
C27_Witness ==
  /\ probe.fn = "setup" /\ probe.n = 2 /\ probe.via = ViaCaller
  /\ client.headers = SetupLoc(1)
  /\ heap[SetupLoc(1)] = ("K" :> <<"c1">>) @@ ("Z" :> <<"z">>)
  /\ heap[CallerLoc] = ("K" :> <<"c1", "ed">>) @@ ("Z" :> <<"z">>)

(* ------------------------------------------------------------------ *)
(* Properties of the options                                           *)
(* ------------------------------------------------------------------ *)

\* the value the last option for the setting gives, zero when there is none
LastGiven(opts, setting, zero) ==
  LET at == {n \in 1..Len(opts) : opts[n].set = setting}
  IN IF at = {} THEN zero
     ELSE opts[CHOOSE n \in at : \A m \in at : m <= n].val

C29_SentinelsExclusive ==
  \A i \in Calls :
    LET c == calls[i]
    IN /\ Returned(i) =>
            ~( ErrorsIs(c.err, ErrFailedToReadResponseBody)
                 /\ ErrorsIs(c.err, ErrStatusCodeNotSuccess) )
       /\ (ReadBroke(i) /\ c.resp.status \notin 200..299) =>
            /\ ErrorsIs(c.err, ErrFailedToReadResponseBody)
            /\ ~ErrorsIs(c.err, ErrStatusCodeNotSuccess)
            /\ c.err.code = 0

\* C29 witness: the body read failed on a status 300 response in one call
\* and was completed on a status 300 response in another
C29_Witness ==
  \E i, j \in Calls :
    /\ ReadBroke(i) /\ calls[i].resp.status = 300
    /\ ErrorsIs(calls[i].err, ErrFailedToReadResponseBody)
    /\ Completed(j) /\ calls[j].resp.status = 300
    /\ ErrorsIs(calls[j].err, ErrStatusCodeNotSuccess)
    /\ ~ErrorsIs(calls[j].err, ErrFailedToReadResponseBody)

(* ------------------------------------------------------------------ *)
(* AddHeader running concurrently with SendRequest, without locking    *)
(* ------------------------------------------------------------------ *)

\* the values given to AddHeader
AddHeaderValueInputs == { <<"n1", "n2">>, <<"n1", "n2", "n3">> }

\* the goroutine that calls AddHeader: where it is in the loop over vals,
\* and the default set as it was when the call began
AdderProbe ==
  [fn |-> "AddHeader", pc |-> "idle", key |-> "K", vals |-> <<>>,
   added |-> 0, before |-> EmptyMap]

InitRace ==
  /\ \E c \in {NewHTTPClient(b, h) : b \in BaseURLs, h \in DefaultHeaderInputs}
                \cup {ClientLiteral(b) : b \in BaseURLs} :
       /\ client = c.client
       /\ heap = c.heap
  /\ calls = [i \in Calls |-> IdleCall]
  /\ probe = AdderProbe

\* AddHeader(key, vals) is called: "if c.headers == nil { c.headers = make }"
AddHeaderBegin(vals) ==
  /\ ~Crashed
  /\ probe.fn = "AddHeader"
  /\ probe.pc = "idle"
  /\ LET e == EnsureHeaders(heap, client.headers, SetupLoc(1))
     IN /\ heap' = e.heap
        /\ client' = [client EXCEPT !.headers = e.ptr]
        /\ probe' = [probe EXCEPT !.pc = "adding", !.vals = vals,
                                  !.before = Deref(heap, client.headers)]
  /\ UNCHANGED calls

\* variant: all values are stored in one step
AddHeaderValue_addsAll ==
  /\ ~Crashed
  /\ probe.fn = "AddHeader"
  /\ probe.pc = "adding"
  /\ heap' = [heap EXCEPT ![client.headers] =
                HeaderAddValues(@, probe.key, probe.vals)]
  /\ probe' = [probe EXCEPT !.added = Len(probe.vals), !.pc = "done"]
  /\ UNCHANGED <<client, calls>>

\* one round of "for _, v := range vals { c.headers.Add(key, v) }"; the call
\* returns after the last value
AddHeaderValue ==
  /\ ~Crashed
  /\ probe.fn = "AddHeader"
  /\ probe.pc = "adding"
  /\ heap' = [heap EXCEPT ![client.headers] =
                HeaderAdd(@, probe.key, probe.vals[probe.added + 1])]
  /\ probe' = [probe EXCEPT
                 !.added = @ + 1,
                 !.pc = IF probe.added + 1 = Len(probe.vals)
                          THEN "done" ELSE "adding"]
  /\ UNCHANGED <<client, calls>>

\* mergeHeaders ranges over c.headers while AddHeader writes to it: the Go
\* runtime may stop the program (concurrent map iteration and map write)
MergeFaults(i) ==
  /\ ~Crashed
  /\ calls[i].pc = "merge"
  /\ probe.fn = "AddHeader"
  /\ probe.pc = "adding"
  /\ calls' = [calls EXCEPT ![i] = [@ EXCEPT !.pc = "panicked"]]
  /\ UNCHANGED <<client, heap, probe>>

NextRace ==
  \/ \E vals \in AddHeaderValueInputs : AddHeaderBegin(vals)
  \/ AddHeaderValue
  \/ \E i \in Calls : \E in \in ConcInputs : Start(i, in)
  \/ \E i \in Calls : Merge(i)
  \/ \E i \in Calls : MergeFaults(i)

SpecRace == InitRace /\ [][NextRace]_vars

\* the values the request headers of call i hold under key k
OwnValues(i, k) ==
  IF calls[i].in.hdrNil THEN <<>> ELSE HeaderValues(calls[i].in.hdr, k)

\* C30: AddHeader(key, vals) adds its values to the shared default set one at
\* a time without locking, so a SendRequest that merges its headers between
\* two additions carries a proper non-empty prefix of vals: every addition
\* extends the key by one value, the default set holds the first values
\* added so far, and a merge copies what the default set holds at that
\* moment, the default values, then a prefix of vals, then its own values.
C30_AddHeaderNotAtomic ==
  /\ [][probe'.added # probe.added =>
          /\ probe'.added = probe.added + 1
          /\ heap'[client.headers][probe.key] =
               HeaderValues(heap[client.headers], probe.key)
                 \o <<probe.vals[probe.added + 1]>>
       ]_vars
  /\ [](probe.pc \in {"adding", "done"} =>
          HeaderValues(heap[client.headers], probe.key) =
            HeaderValues(probe.before, probe.key)
              \o SubSeq(probe.vals, 1, probe.added))
  /\ [][\A i \in Calls :
          (calls[i].pc = "merge" /\ calls'[i].pc = "sending") =>
            HeaderValues(calls'[i].sent.header, probe.key) =
              HeaderValues(Deref(heap, client.headers), probe.key)
                \o OwnValues(i, probe.key)
       ]_vars

\* C30 witness: AddHeader(K, [n1, n2, n3]) has returned, and a request that
\* was assembled meanwhile carries n1 and n2 after the defaults, not n3
C30_Witness ==
  \E i \in Calls :
    /\ probe.fn = "AddHeader" /\ probe.pc = "done"
    /\ probe.vals = <<"n1", "n2", "n3">>
    /\ calls[i].pc = "sending" /\ calls[i].in.hdrNil
    /\ HeaderValues(calls[i].sent.header, "K") = <<"b1", "b2", "n1", "n2">>
    /\ HeaderValues(heap[client.headers], "K")
         = <<"b1", "b2", "n1", "n2", "n3">>

====
